---- MODULE Spec2Model ----
(***************************************************************************)
(* Protocrap: the resumable table-driven decoder (src/src/decoding.rs),    *)
(* the object model it writes into (src/src/base.rs, containers.rs), the   *)
(* caller-visible decode entry points (src/src/lib.rs) and the encoder.    *)
(*                                                                         *)
(* Bytes are integers 0..255.  A buffer is a sequence of bytes; a cursor   *)
(* is a 0-based offset from the start of the slice handed to go_decode,    *)
(* and `end` is the length of that slice.  The memory a cursor may read    *)
(* is the slice followed by its lookahead (the rest of the patch buffer   *)
(* or the held-back tail of the chunk).                                    *)
(*                                                                         *)
(* Integer values keep their width: a u64 is kept as its ten 7-bit varint  *)
(* groups (the tenth holds bit 63 only), a u32 as five groups (the fifth   *)
(* holds bits 28..31), a fixed-width value as its little-endian bytes.     *)
(***************************************************************************)
EXTENDS Integers, Sequences, FiniteSets, TLC

\* ------------------------------------------------------------------------
\* Program constants
\* ------------------------------------------------------------------------

\* wire::SLOP_SIZE, the lookahead margin
SLOP_SIZE == 16

\* isize::MAX, the limit decode_flat/decode hand to ResumeableDecode::new
\* (32-bit targets such as thumbv7m, which the no-std test builds for)
ISIZE_MAX == 2147483647

\* the STACK_DEPTH const generic the caller instantiates the decoder with
STACK_DEPTH == 3

\* v's value handed to F: v is evaluated once, however often F uses it
Bind(v, F(_)) == CHOOSE r \in {F(x) : x \in {v}} : TRUE

\* ------------------------------------------------------------------------
\* Wire primitives (crate::wire): cursor reads
\* ------------------------------------------------------------------------

\* the byte at 0-based offset i of the readable memory
At(mem, i) == IF i >= 0 /\ i < Len(mem) THEN mem[i + 1] ELSE 0

\* number of bytes of the varint that starts at c, 0 when none of the
\* first max bytes ends it
VarintLen(mem, c, max) ==
    IF \E k \in 1..max : At(mem, c + k - 1) < 128
    THEN CHOOSE k \in 1..max :
            /\ At(mem, c + k - 1) < 128
            /\ \A j \in 1..(k - 1) : At(mem, c + j - 1) >= 128
    ELSE 0

\* ReadCursor::read_varint: at most 10 bytes, value as a u64
read_varint(mem, c) ==
    LET read(n) ==
          IF n = 0 THEN [ok |-> FALSE, val |-> <<>>, next |-> c]
          ELSE [ok   |-> TRUE,
                val  |-> [i \in 1..10 |->
                            IF i > n THEN 0
                            ELSE IF i = 10 THEN At(mem, c + 9) % 2
                            ELSE At(mem, c + i - 1) % 128],
                next |-> c + n]
    IN Bind(VarintLen(mem, c, 10), read)

\* ReadCursor::read_tag: at most 5 bytes, rejects a trailing zero
\* continuation byte and a value that does not fit 32 bits
read_tag(mem, c) ==
    LET read(n) ==
          LET g(i) == IF i > n THEN 0 ELSE At(mem, c + i - 1) % 128 IN
          IF n = 0 \/ (n > 1 /\ At(mem, c + n - 1) = 0)
             \/ (n = 5 /\ g(5) > 15)
          THEN [ok |-> FALSE, tag0 |-> FALSE, wire_type |-> 0,
                field_number |-> 0, next |-> c]
          ELSE [ok           |-> TRUE,
                tag0         |-> (n = 1 /\ At(mem, c) = 0),
                wire_type    |-> g(1) % 8,
                field_number |-> (g(1) \div 8) + 16 * g(2) + 2048 * g(3)
                                 + 262144 * g(4) + 33554432 * g(5),
                next         |-> c + n]
    IN Bind(VarintLen(mem, c, 5), read)

\* ReadCursor::read_size: at most 5 bytes, bounded to INT32_MAX
read_size(mem, c) ==
    LET read(n) ==
          LET g(i) == IF i > n THEN 0 ELSE At(mem, c + i - 1) % 128 IN
          IF n = 0 \/ (n = 5 /\ g(5) > 7)
          THEN [ok |-> FALSE, len |-> 0, next |-> c]
          ELSE [ok   |-> TRUE,
                len  |-> g(1) + 128 * g(2) + 16384 * g(3) + 2097152 * g(4)
                         + 268435456 * g(5),
                next |-> c + n]
    IN Bind(VarintLen(mem, c, 5), read)

\* ReadCursor::read_slice / read_unaligned: the n bytes at c
read_slice(mem, c, n) == [i \in 1..n |-> At(mem, c + i - 1)]

\* `as u32` of a u64 held as varint groups
AsU32(v) == <<v[1], v[2], v[3], v[4], v[5] % 16>>

\* `val != 0`
NonZero(v) == \E i \in DOMAIN v : v[i] # 0

ZeroU32 == <<0, 0, 0, 0, 0>>
ZeroU64 == <<0, 0, 0, 0, 0, 0, 0, 0, 0, 0>>
ZeroFixed64 == <<0, 0, 0, 0, 0, 0, 0, 0>>

\* ------------------------------------------------------------------------
\* core::str::from_utf8(..).is_ok()
\* ------------------------------------------------------------------------

IsCont(b) == b >= 128 /\ b <= 191

RECURSIVE Utf8From(_, _)
Utf8From(s, i) ==
    IF i > Len(s) THEN TRUE
    ELSE LET b0 == s[i]
             b(k) == IF i + k <= Len(s) THEN s[i + k] ELSE 0
         IN
         IF b0 < 128 THEN Utf8From(s, i + 1)
         ELSE IF b0 >= 194 /\ b0 <= 223
              THEN IsCont(b(1)) /\ Utf8From(s, i + 2)
         ELSE IF b0 = 224
              THEN b(1) >= 160 /\ b(1) <= 191 /\ IsCont(b(2))
                   /\ Utf8From(s, i + 3)
         ELSE IF b0 = 237
              THEN b(1) >= 128 /\ b(1) <= 159 /\ IsCont(b(2))
                   /\ Utf8From(s, i + 3)
         ELSE IF b0 >= 225 /\ b0 <= 239
              THEN IsCont(b(1)) /\ IsCont(b(2)) /\ Utf8From(s, i + 3)
         ELSE IF b0 = 240
              THEN b(1) >= 144 /\ b(1) <= 191 /\ IsCont(b(2)) /\ IsCont(b(3))
                   /\ Utf8From(s, i + 4)
         ELSE IF b0 >= 241 /\ b0 <= 243
              THEN IsCont(b(1)) /\ IsCont(b(2)) /\ IsCont(b(3))
                   /\ Utf8From(s, i + 4)
         ELSE IF b0 = 244
              THEN b(1) >= 128 /\ b(1) <= 143 /\ IsCont(b(2)) /\ IsCont(b(3))
                   /\ Utf8From(s, i + 4)
         ELSE FALSE

\* a validation that accepts every byte string
from_utf8_unchecked(s) == TRUE

from_utf8_is_ok(s) == Bind(s, LAMBDA v : Utf8From(v, 1))

\* ------------------------------------------------------------------------
\* The arena as the decoder uses it (Arena::alloc_raw): a request is served
\* or fails with ArenaAllocationFailed.  An arena either serves every
\* request, or it serves `left` more requests and fails the ones after them
\* (an arena over a caller-owned buffer that is then used up).  Requests
\* for Bytes storage are taken to be served.
\* ------------------------------------------------------------------------

Ample == [limited |-> FALSE, left |-> 0]
Serving(n) == [limited |-> TRUE, left |-> n]

\* alloc_raw returns Ok
Served(arena) == ~arena.limited \/ arena.left > 0

\* the arena after a request it served
After(arena) ==
    IF arena.limited THEN [arena EXCEPT !.left = @ - 1] ELSE arena

\* the capacity of a RepeatedField filled by push alone: RawVec::grow with
\* new_cap = 0 makes it 1, then doubles it
RECURSIVE CapFrom(_, _)
CapFrom(cap, len) ==
    IF cap >= len THEN cap
    ELSE CapFrom(IF cap = 0 THEN 1 ELSE 2 * cap, len)

Cap(len) == CapFrom(0, len)

\* RepeatedField::push: grow when len = cap; Err, and the element not
\* stored, when the arena fails the request
push(field, elem, arena) ==
    IF Len(field) = Cap(Len(field))
    THEN IF Served(arena)
         THEN [ok |-> TRUE, field |-> Append(field, elem),
               arena |-> After(arena)]
         ELSE [ok |-> FALSE, field |-> field, arena |-> arena]
    ELSE [ok |-> TRUE, field |-> Append(field, elem), arena |-> arena]

\* push of each value in turn, the Results dropped
RECURSIVE push_each(_, _, _)
push_each(field, vals, arena) ==
    IF vals = <<>> THEN [field |-> field, arena |-> arena]
    ELSE Bind(push(field, Head(vals), arena), LAMBDA r :
              push_each(r.field, Tail(vals), r.arena))

\* ------------------------------------------------------------------------
\* Object model (base.rs, containers.rs)
\*
\* An Object is untyped memory addressed by offsets; here an offset is the
\* name of the storage slot it denotes.  Metadata word 0 holds the presence
\* bits (hb), metadata word 1 the discriminant of the oneof (disc).  The
\* oneof arms share the union slot u, laid out as the three words of a
\* RepeatedField (ptr, cap, len): a u32 arm and a message arm overwrite the
\* ptr word, a string arm uses all three.  lost holds the objects that
\* were created for the message but that no field of it points to.
\* ------------------------------------------------------------------------

NullPtr == [t |-> "null"]
ObjPtr(o) == [t |-> "obj", o |-> o]

\* Object::create: zeroed memory of table.size bytes
ZeroObject ==
    [hb |-> {}, disc |-> 0,
     x |-> ZeroU32, y |-> ZeroFixed64, z |-> <<>>,
     child1 |-> NullPtr, grp |-> NullPtr, nested |-> <<>>,
     v |-> <<>>, rs |-> <<>>, rf |-> <<>>,
     u |-> [ptr |-> NullPtr, cap |-> 0, len |-> 0],
     lost |-> <<>>]

\* the object a message pointer stored in slot st refers to
Child(o, st) ==
    IF st[1] \in {"nested", "lost"} THEN o[st[1]][st[2]]
    ELSE IF st[1] = "u" THEN o.u.ptr.o
    ELSE o[st[1]].o

WithChild(o, st, c) ==
    IF st[1] \in {"nested", "lost"} THEN [o EXCEPT ![st[1]][st[2]] = c]
    ELSE IF st[1] = "u" THEN [o EXCEPT !.u.ptr = ObjPtr(c)]
    ELSE [o EXCEPT ![st[1]] = ObjPtr(c)]

\* PtrMut<Object>::as_mut: the object behind a pointer, as a path from the
\* root object
RECURSIVE GetObj(_, _)
GetObj(root, path) ==
    IF path = <<>> THEN root
    ELSE GetObj(Child(root, Head(path)), Tail(path))

RECURSIVE SetObj(_, _, _)
SetObj(root, path, c) ==
    IF path = <<>> THEN c
    ELSE WithChild(root, Head(path),
                   SetObj(Child(root, Head(path)), Tail(path), c))

\* Object::set_has_bit (all presence bits of this table lie in word 0)
set_has_bit(o, has_bit_idx) == [o EXCEPT !.hb = @ \cup {has_bit_idx}]

\* Object::set: mark presence, write the value at the offset
set(o, offset, has_bit_idx, val) ==
    [set_has_bit(o, has_bit_idx) EXCEPT ![offset] = val]

\* the ptr word of the union slot after a 4-byte write: the upper half of a
\* pointer stored there before stays behind (stale)
IntWord(old, val) ==
    [t |-> "int", v |-> val,
     stale |-> (old.t \in {"obj", "buf"} \/ (old.t = "int" /\ old.stale))]

\* Object::set_oneof: write the discriminant, then the value
set_oneof(o, offset, discriminant_word_idx, field_number, val) ==
    [o EXCEPT !.disc = field_number,
              ![offset].ptr = IF o[offset].ptr.t = "null" /\ ~NonZero(val)
                              THEN NullPtr
                              ELSE IntWord(o[offset].ptr, val)]

\* RepeatedField<u8>::assign on the three words of a Bytes: clear, reserve
\* (RawVec::grow_outline), copy.  ub: the ptr word is used as a buffer
\* pointer although no buffer pointer was stored there.
bytes_append(b, slice) ==
    LET old_len == b.len
        new_len == old_len + Len(slice)
        grows   == new_len > b.cap
        isbuf   == b.ptr.t = "buf"
        old     == IF isbuf THEN SubSeq(b.ptr.data, 1, old_len) ELSE <<>>
        touched == (grows /\ b.cap # 0) \/ (~grows /\ Len(slice) > 0)
                   \/ old_len > 0
    IN
    [b  |-> IF new_len = 0 /\ ~grows THEN [b EXCEPT !.len = 0]
            ELSE [ptr |-> [t |-> "buf", data |-> old \o slice],
                  cap |-> IF grows THEN new_len ELSE b.cap,
                  len |-> new_len],
     ub |-> touched /\ ~isbuf]

bytes_assign(b, slice) == bytes_append([b EXCEPT !.len = 0], slice)

\* RepeatedField<u8>::slice
bytes_slice(b) ==
    IF b.cap = 0 \/ b.ptr.t # "buf" THEN <<>> ELSE SubSeq(b.ptr.data, 1, b.len)

\* ------------------------------------------------------------------------
\* The table of the message type Test (all message-typed fields are of type
\* Test again):
\*    1 x int32            7 v   repeated int32
\*    2 y fixed64          8 rs  repeated string
\*    3 z string           9 o_int  uint32   (oneof o)
\*    4 child1 Test       10 o_str  string   (oneof o)
\*    5 grp group         11 o_msg  Test     (oneof o)
\*    6 nested repeated Test   12 rf repeated fixed32
\* ------------------------------------------------------------------------

\* has_bit_idx of the arms of the oneof: 0x80 | discriminant word index
ONEOF_BIT == 129

DecodeEntries ==
    << [kind |-> "Unknown",         has_bit_idx |-> 0, offset |-> "none"],
       [kind |-> "Int32",           has_bit_idx |-> 0, offset |-> "x"],
       [kind |-> "Fixed64",         has_bit_idx |-> 1, offset |-> "y"],
       [kind |-> "String",          has_bit_idx |-> 2, offset |-> "z"],
       [kind |-> "Message",         has_bit_idx |-> 0, offset |-> "child1"],
       [kind |-> "Group",           has_bit_idx |-> 0, offset |-> "grp"],
       [kind |-> "RepeatedMessage", has_bit_idx |-> 0, offset |-> "nested"],
       [kind |-> "RepeatedInt32",   has_bit_idx |-> 0, offset |-> "v"],
       [kind |-> "RepeatedString",  has_bit_idx |-> 0, offset |-> "rs"],
       [kind |-> "Varint32",  has_bit_idx |-> ONEOF_BIT, offset |-> "u"],
       [kind |-> "String",    has_bit_idx |-> ONEOF_BIT, offset |-> "u"],
       [kind |-> "Message",   has_bit_idx |-> ONEOF_BIT, offset |-> "u"],
       [kind |-> "RepeatedFixed32", has_bit_idx |-> 0, offset |-> "rf"] >>

\* Table::entry: None for a field number beyond the decode entries
entry(field_number) ==
    IF field_number >= Len(DecodeEntries)
    THEN [some |-> FALSE, kind |-> "Unknown", has_bit_idx |-> 0,
          offset |-> "none"]
    ELSE [some |-> TRUE] @@ DecodeEntries[field_number + 1]

\* ------------------------------------------------------------------------
\* Decoder state (decoding.rs)
\*
\* A decoder context s is the record
\*   cursor, limit, limited_end   the locals of decode_loop
\*   msg                          ctx.msg, the path of the current object
\*   stack                        Stack<StackEntry>, top of stack last
\*   root                         the memory of the target message
\*   ub                           undefined behaviour has happened
\* A StackEntry is [has_obj, msg, delta]: obj_table (None for the frames
\* skip_group pushes) and delta_limit_or_group_tag.
\* ------------------------------------------------------------------------

DO_None == [k |-> "None"]
DO_Message(msg) == [k |-> "Message", msg |-> msg]
DO_Bytes(ref, validate_utf8) ==
    [k |-> "Bytes", ref |-> ref, validate_utf8 |-> validate_utf8]
DO_SkipLengthDelimited == [k |-> "SkipLengthDelimited"]
DO_SkipGroup == [k |-> "SkipGroup"]
DO_PackedU32(ref) == [k |-> "PackedU32", ref |-> ref]
DO_PackedFixed32(ref) == [k |-> "PackedFixed32", ref |-> ref]

\* DecodeLoopResult: None (ok = FALSE) or Some((cursor, limit, object)); the
\* stack, the arena and the target memory are passed by reference and keep
\* what was done to them before a failure; panic: the call did not return
\* but panicked
None(s) ==
    [ok |-> FALSE, cursor |-> s.cursor, limit |-> s.limit, object |-> DO_None,
     stack |-> s.stack, root |-> s.root, ub |-> s.ub, arena |-> s.arena,
     panic |-> s.panic]

Some(s, object) ==
    [ok |-> TRUE, cursor |-> s.cursor, limit |-> s.limit, object |-> object,
     stack |-> s.stack, root |-> s.root, ub |-> s.ub, arena |-> s.arena,
     panic |-> s.panic]

Min(a, b) == IF a < b THEN a ELSE b

calc_limited_end(end, limit) == end + Min(limit, 0)

\* Stack::push: None when no slot is left
StackFull(stack) == Len(stack) >= STACK_DEPTH

\* push_limit with a length that reaches beyond the current limit cut down
\* to it
push_limit_clamped(s, len, cursor, end) ==
    LET new_limit   == Min(s.limit, cursor - end + len)
        delta_limit == s.limit - new_limit
    IN
    IF StackFull(s.stack) THEN [ok |-> FALSE, s |-> s]
    ELSE [ok |-> TRUE,
          s  |-> [s EXCEPT
                    !.stack = Append(@, [has_obj |-> TRUE, msg |-> s.msg,
                                         delta |-> delta_limit]),
                    !.limit = new_limit,
                    !.limited_end = calc_limited_end(end, new_limit)]]

\* DecodeObjectState::push_limit
push_limit(s, len, cursor, end) ==
    LET new_limit   == cursor - end + len
        delta_limit == s.limit - new_limit
    IN
    IF delta_limit < 0 \/ StackFull(s.stack) THEN [ok |-> FALSE, s |-> s]
    ELSE [ok |-> TRUE,
          s  |-> [s EXCEPT
                    !.stack = Append(@, [has_obj |-> TRUE, msg |-> s.msg,
                                         delta |-> delta_limit]),
                    !.limit = new_limit,
                    !.limited_end = calc_limited_end(end, new_limit)]]

\* DecodeObjectState::push_group
push_group(s, field_number) ==
    IF StackFull(s.stack) THEN [ok |-> FALSE, s |-> s]
    ELSE [ok |-> TRUE,
          s  |-> [s EXCEPT
                    !.stack = Append(@, [has_obj |-> TRUE, msg |-> s.msg,
                                         delta |-> -field_number])]]

Top(stack) == stack[Len(stack)]
Pop(stack) == SubSeq(stack, 1, Len(stack) - 1)

\* into_context taking any entry for the group that an end-group tag closes
pop_context_unnumbered(s, end, group, field_number) ==
    IF s.stack = <<>> THEN [ok |-> FALSE, s |-> s]
    ELSE LET e  == Top(s.stack)
             s1 == [s EXCEPT !.stack = Pop(@)]
         IN
         IF group
         THEN [ok |-> TRUE, s |-> [s1 EXCEPT !.msg = e.msg]]
         ELSE IF e.delta < 0 THEN [ok |-> FALSE, s |-> s1]
              ELSE [ok |-> TRUE,
                    s  |-> [s1 EXCEPT
                              !.msg = e.msg,
                              !.limit = s.limit + e.delta,
                              !.limited_end =
                                  calc_limited_end(end, s.limit + e.delta)]]

\* StackEntry::into_context after Stack::pop, as pop_limit (group = FALSE)
\* and pop_group (group = TRUE) use it.  A popped entry stays popped when
\* into_context rejects it.
pop_context(s, end, group, field_number) ==
    IF s.stack = <<>> THEN [ok |-> FALSE, s |-> s]
    ELSE LET e  == Top(s.stack)
             s1 == [s EXCEPT !.stack = Pop(@)]
         IN
         IF group
         THEN IF -e.delta # field_number THEN [ok |-> FALSE, s |-> s1]
              ELSE [ok |-> TRUE, s |-> [s1 EXCEPT !.msg = e.msg]]
         ELSE IF e.delta < 0 THEN [ok |-> FALSE, s |-> s1]
              ELSE [ok |-> TRUE,
                    s  |-> [s1 EXCEPT
                              !.msg = e.msg,
                              !.limit = s.limit + e.delta,
                              !.limited_end =
                                  calc_limited_end(end, s.limit + e.delta)]]

\* the object ctx.msg points to, and the context after writing it back
Cur(s) == GetObj(s.root, s.msg)
Put(s, o) == [s EXCEPT !.root = SetObj(s.root, s.msg, o)]

\* DecodeObjectState::set
ctx_set(s, e, field_number, val) ==
    IF e.has_bit_idx >= 128
    THEN Put(s, set_oneof(Cur(s), e.offset, e.has_bit_idx % 128,
                          field_number, val))
    ELSE Put(s, set(Cur(s), e.offset, e.has_bit_idx, val))

\* Object::set_bytes / set_bytes_oneof, as DecodeObjectState::set_bytes and
\* the slow path of decode_loop call them
set_bytes(s, e, field_number, slice) ==
    LET o == Cur(s) IN
    IF e.has_bit_idx >= 128
    THEN LET r == bytes_assign(o[e.offset], slice) IN
         [Put(s, [o EXCEPT !.disc = field_number, ![e.offset] = r.b])
            EXCEPT !.ub = @ \/ r.ub]
    ELSE Put(s, [set_has_bit(o, e.has_bit_idx) EXCEPT ![e.offset] = slice])

\* Object::add_bytes: push a new Bytes onto a RepeatedField<Bytes>
add_bytes(s, e, slice) ==
    Put(s, [Cur(s) EXCEPT ![e.offset] = Append(@, slice)])

\* the Bytes a DecodeObject::Bytes refers to: a field of the object at
\* ref.msg, or the last element of a repeated field
RefSlice(root, ref) ==
    LET o == GetObj(root, ref.msg) IN
    IF ref.slot = "u" THEN bytes_slice(o.u)
    ELSE IF ref.idx > 0 THEN o[ref.slot][ref.idx]
    ELSE o[ref.slot]

\* Bytes::append through such a reference
RefAppend(s, ref, slice) ==
    LET o == GetObj(s.root, ref.msg) IN
    IF ref.slot = "u"
    THEN LET r == bytes_append(o.u, slice) IN
         [s EXCEPT !.root = SetObj(s.root, ref.msg, [o EXCEPT !.u = r.b]),
                   !.ub = @ \/ r.ub]
    ELSE IF ref.idx > 0
    THEN [s EXCEPT !.root = SetObj(s.root, ref.msg,
                      [o EXCEPT ![ref.slot][ref.idx] = @ \o slice])]
    ELSE [s EXCEPT !.root = SetObj(s.root, ref.msg,
                      [o EXCEPT ![ref.slot] = @ \o slice])]

\* Message::is_null on the 8-byte word of a message slot
is_null(cell) == cell.t = "null" \/ (cell.t = "int" /\ ~NonZero(cell.v)
                                     /\ ~cell.stale)

\* DecodeObjectState::get_or_create_child_object: the child the slot points
\* to, created when the slot is null.  A non-null word that some other arm
\* of the oneof stored is used as an object pointer (ub).  Err when
\* Object::create fails.
get_or_create_child_object(s, e) ==
    LET o    == Cur(s)
        cell == IF e.offset = "u" THEN o.u.ptr ELSE o[e.offset]
        keep == ~is_null(cell) /\ cell.t = "obj"
        s1   == IF keep THEN s
                ELSE Put(s, WithChild(o, <<e.offset, 0>>, ZeroObject))
    IN
    IF is_null(cell) /\ ~Served(s.arena) THEN [ok |-> FALSE, s |-> s]
    ELSE [ok |-> TRUE,
          s  |-> [s1 EXCEPT
                    !.msg = Append(s.msg, <<e.offset, 0>>),
                    !.ub = @ \/ (~is_null(cell) /\ cell.t # "obj"),
                    !.arena = IF is_null(cell) THEN After(@) ELSE @]]

\* DecodeObjectState::add_child_object: Err when Object::create fails; the
\* Result of field.push is dropped, so a child the field could not take is
\* decoded into all the same
add_child_object(s, e) ==
    LET o == Cur(s) IN
    IF ~Served(s.arena) THEN [ok |-> FALSE, s |-> s]
    ELSE Bind(push(o[e.offset], ZeroObject, After(s.arena)), LAMBDA p :
              [ok |-> TRUE,
               s  |-> IF p.ok
                      THEN [Put(s, [o EXCEPT ![e.offset] = p.field])
                              EXCEPT !.msg = Append(s.msg, <<e.offset,
                                                     Len(p.field)>>),
                                     !.arena = p.arena]
                      ELSE [Put(s, [o EXCEPT !.lost = Append(@, ZeroObject)])
                              EXCEPT !.msg = Append(s.msg, <<"lost",
                                                     Len(o.lost) + 1>>),
                                     !.arena = p.arena]])

\* unpack_varint: push decode_fn(varint) while cursor < limited_end
RECURSIVE unpack_varint(_, _, _, _)
unpack_varint(mem, cursor, limited_end, acc) ==
    IF cursor < limited_end
    THEN LET take(v) ==
               IF ~v.ok THEN [ok |-> FALSE, cursor |-> cursor, vals |-> acc]
               ELSE Bind(Append(acc, AsU32(v.val)), LAMBDA acc1 :
                         unpack_varint(mem, v.next, limited_end, acc1))
         IN Bind(read_varint(mem, cursor), take)
    ELSE [ok |-> TRUE, cursor |-> cursor, vals |-> acc]

\* unpack_fixed::<u32>: push 4 bytes while cursor < limited_end
RECURSIVE unpack_fixed(_, _, _, _)
unpack_fixed(mem, cursor, limited_end, acc) ==
    IF cursor < limited_end
    THEN Bind(Append(acc, read_slice(mem, cursor, 4)), LAMBDA acc1 :
              Bind(cursor + 4, LAMBDA next :
                   unpack_fixed(mem, next, limited_end, acc1)))
    ELSE [ok |-> TRUE, cursor |-> cursor, vals |-> acc]

\* field.push(val, arena) of the unpacked values, in turn, onto the field
\* at ref
RefPush(s, ref, vals) ==
    LET o == GetObj(s.root, ref.msg) IN
    Bind(push_each(o[ref.slot], vals, s.arena), LAMBDA p :
         [s EXCEPT !.root = SetObj(s.root, ref.msg,
                                   [o EXCEPT ![ref.slot] = p.field]),
                   !.arena = p.arena])

\* ------------------------------------------------------------------------
\* decode_loop: one field
\*
\* The outcome of one pass through the body of 'parse_loop:
\*   [t = "cont", s]        continue 'parse_loop
\*   [t = "ret", r]         return r
\*   [t = "unknown"]        break 'unknown (treat the field as unknown)
\*   [t = "skip_group", s]  return skip_group(..)
\* ------------------------------------------------------------------------

Cont(s) == [t |-> "cont", s |-> s]
Return(r) == [t |-> "ret", r |-> r]
BreakUnknown == [t |-> "unknown"]

FieldRef(s, e, idx) == [msg |-> s.msg, slot |-> e.offset, idx |-> idx]

\* FieldKind::Varint32 | FieldKind::Int32
field_varint32(s, mem, tag, e) ==
    IF tag.wire_type # 0 THEN BreakUnknown
    ELSE Bind(read_varint(mem, tag.next), LAMBDA v :
              IF ~v.ok THEN Return(None(s))
              ELSE Cont(ctx_set([s EXCEPT !.cursor = v.next], e,
                                tag.field_number, AsU32(v.val))))

\* FieldKind::Fixed64
field_fixed64(s, mem, tag, e) ==
    IF tag.wire_type # 1 THEN BreakUnknown
    ELSE Cont(ctx_set([s EXCEPT !.cursor = tag.next + 8], e,
                      tag.field_number, read_slice(mem, tag.next, 8)))

\* the slow path of a string: push the limit, store what the buffer holds
string_spans(s, mem, end, tag, e, sz, add, idx) ==
    LET validate_utf8 == e.kind \in {"String", "RepeatedString"}
        c == sz.next
    IN
    Bind(push_limit(s, sz.len, c, end), LAMBDA pl :
         IF ~pl.ok THEN Return(None(pl.s))
         ELSE Bind(read_slice(mem, c, SLOP_SIZE - (c - end)), LAMBDA slice :
              Bind([pl.s EXCEPT !.cursor = end + SLOP_SIZE], LAMBDA s1 :
                   Return(Some(IF add THEN add_bytes(s1, e, slice)
                               ELSE set_bytes(s1, e, tag.field_number, slice),
                               DO_Bytes(FieldRef(s, e, idx), validate_utf8))))))

\* FieldKind::Bytes | FieldKind::String
field_string(s, mem, end, tag, e) ==
    IF tag.wire_type # 2 THEN BreakUnknown
    ELSE
    Bind(read_size(mem, tag.next), LAMBDA sz :
         LET validate_utf8 == e.kind = "String"
             c == sz.next
         IN
         IF ~sz.ok THEN Return(None(s))
         ELSE IF c - s.limited_end + sz.len <= SLOP_SIZE
         THEN Bind(read_slice(mem, c, sz.len), LAMBDA slice :
                   IF validate_utf8 /\ ~from_utf8_is_ok(slice)
                   THEN Return(None(s))
                   ELSE Cont(set_bytes([s EXCEPT !.cursor = c + sz.len], e,
                                       tag.field_number, slice)))
         ELSE string_spans(s, mem, end, tag, e, sz, FALSE, 0))

\* get_or_create_child_object(entry, arena).unwrap() inside ctx.update
unwrap_child_object(s, e) ==
    Bind(get_or_create_child_object(s, e), LAMBDA r :
         IF r.ok THEN Cont(r.s)
         ELSE Return(None([s EXCEPT !.panic = TRUE])))

\* FieldKind::Message
field_message(s, mem, end, tag, e) ==
    IF tag.wire_type # 2 THEN BreakUnknown
    ELSE
    \* For oneof message fields, set the discriminant
    Bind(IF e.has_bit_idx >= 128
         THEN Put(s, [Cur(s) EXCEPT !.disc = tag.field_number])
         ELSE s, LAMBDA s1 :
    Bind(read_size(mem, tag.next), LAMBDA sz :
         IF ~sz.ok THEN Return(None(s1))
         ELSE Bind(push_limit([s1 EXCEPT !.cursor = sz.next], sz.len,
                              sz.next, end), LAMBDA pl :
                   IF ~pl.ok THEN Return(None(pl.s))
                   ELSE unwrap_child_object(pl.s, e))))

\* FieldKind::Group
field_group(s, mem, tag, e) ==
    IF tag.wire_type # 3 THEN BreakUnknown
    ELSE Bind(push_group([s EXCEPT !.cursor = tag.next], tag.field_number),
              LAMBDA pg :
              IF ~pg.ok THEN Return(None(pg.s))
              ELSE unwrap_child_object(pg.s, e))

\* the values of a packed block from c up to the given end
unpack(varint, mem, c, upto) ==
    IF varint THEN unpack_varint(mem, c, upto, <<>>)
    ELSE unpack_fixed(mem, c, upto, <<>>)

\* FieldKind::RepeatedVarint32 | FieldKind::RepeatedInt32 (varint = TRUE)
\* and FieldKind::RepeatedFixed32
field_repeated_primitive(s, mem, end, tag, e) ==
    LET varint == e.kind = "RepeatedInt32"
        native == IF varint THEN 0 ELSE 5
        ref == FieldRef(s, e, 0)
    IN
    IF tag.wire_type = native
    THEN \* Unpacked
         IF varint
         THEN Bind(read_varint(mem, tag.next), LAMBDA v :
                   IF ~v.ok THEN Return(None(s))
                   ELSE Cont(RefPush([s EXCEPT !.cursor = v.next], ref,
                                     <<AsU32(v.val)>>)))
         ELSE Cont(RefPush([s EXCEPT !.cursor = tag.next + 4], ref,
                           <<read_slice(mem, tag.next, 4)>>))
    ELSE IF tag.wire_type = 2
    THEN \* Packed
         Bind(read_size(mem, tag.next), LAMBDA sz :
              LET c == sz.next IN
              IF ~sz.ok THEN Return(None(s))
              ELSE IF c - s.limited_end + sz.len <= 0
              THEN \* Fast path: entire packed field fits in buffer
                   Bind(unpack(varint, mem, c, c + sz.len), LAMBDA u :
                   Bind(RefPush([s EXCEPT !.cursor = u.cursor], ref, u.vals),
                        LAMBDA s2 :
                        IF ~u.ok \/ u.cursor # c + sz.len
                        THEN Return(None(s2))
                        ELSE Cont(s2)))
              ELSE \* Slow path: field spans buffers
                   Bind(push_limit(s, sz.len, c, end), LAMBDA pl :
                        IF ~pl.ok THEN Return(None(pl.s))
                        ELSE
                        Bind(unpack(varint, mem, c, end), LAMBDA u :
                        Bind(RefPush([pl.s EXCEPT !.cursor = u.cursor], ref,
                                     u.vals), LAMBDA s2 :
                             IF ~u.ok THEN Return(None(s2))
                             ELSE Return(Some(s2,
                                    IF varint THEN DO_PackedU32(ref)
                                    ELSE DO_PackedFixed32(ref)))))))
    ELSE BreakUnknown

\* FieldKind::RepeatedBytes | FieldKind::RepeatedString
field_repeated_string(s, mem, end, tag, e) ==
    IF tag.wire_type # 2 THEN BreakUnknown
    ELSE
    Bind(read_size(mem, tag.next), LAMBDA sz :
         LET validate_utf8 == e.kind = "RepeatedString"
             c == sz.next
         IN
         IF ~sz.ok THEN Return(None(s))
         ELSE IF c - s.limited_end + sz.len <= SLOP_SIZE
         THEN Bind(read_slice(mem, c, sz.len), LAMBDA slice :
                   IF validate_utf8 /\ ~from_utf8_is_ok(slice)
                   THEN Return(None(s))
                   ELSE Cont(add_bytes([s EXCEPT !.cursor = c + sz.len], e,
                                       slice)))
         ELSE string_spans(s, mem, end, tag, e, sz, TRUE,
                           Len(Cur(s)[e.offset]) + 1))

\* FieldKind::RepeatedMessage
field_repeated_message(s, mem, end, tag, e) ==
    IF tag.wire_type # 2 THEN BreakUnknown
    ELSE Bind(read_size(mem, tag.next), LAMBDA sz :
              IF ~sz.ok THEN Return(None(s))
              ELSE Bind(push_limit([s EXCEPT !.cursor = sz.next], sz.len,
                                   sz.next, end), LAMBDA pl :
                        IF ~pl.ok THEN Return(None(pl.s))
                        ELSE Bind(add_child_object(pl.s, e), LAMBDA c :
                                  IF ~c.ok THEN Return(None(c.s))
                                  ELSE Cont(c.s))))

\* the match on entry.kind()
known_field(s, mem, end, tag, e) ==
    CASE e.kind \in {"Int32", "Varint32"} -> field_varint32(s, mem, tag, e)
      [] e.kind = "Fixed64" -> field_fixed64(s, mem, tag, e)
      [] e.kind \in {"String", "Bytes"} -> field_string(s, mem, end, tag, e)
      [] e.kind = "Message" -> field_message(s, mem, end, tag, e)
      [] e.kind = "Group" -> field_group(s, mem, tag, e)
      [] e.kind \in {"RepeatedInt32", "RepeatedFixed32"} ->
             field_repeated_primitive(s, mem, end, tag, e)
      [] e.kind = "RepeatedString" ->
             field_repeated_string(s, mem, end, tag, e)
      [] e.kind = "RepeatedMessage" ->
             field_repeated_message(s, mem, end, tag, e)
      [] OTHER -> BreakUnknown

\* the unknown-field part of decode_loop
unknown_field(s, mem, end, tag) ==
    LET c == tag.next
        s0 == [s EXCEPT !.cursor = c]
    IN
    IF tag.field_number = 0
    THEN \* a 0 byte ends parsing, but only if the stack is empty
         IF tag.tag0 /\ s.stack = <<>> THEN Return(Some(s0, DO_None))
         ELSE Return(None(s0))
    ELSE
    CASE tag.wire_type = 0 ->
           Bind(read_varint(mem, c), LAMBDA v :
                IF ~v.ok THEN Return(None(s0))
                ELSE Cont([s EXCEPT !.cursor = v.next]))
      [] tag.wire_type = 1 -> Cont([s EXCEPT !.cursor = c + 8])
      [] tag.wire_type = 2 ->
           Bind(read_size(mem, c), LAMBDA sz :
                IF ~sz.ok THEN Return(None(s0))
                ELSE IF sz.next - s.limited_end + sz.len <= SLOP_SIZE
                THEN Cont([s EXCEPT !.cursor = sz.next + sz.len])
                ELSE Bind(push_limit([s EXCEPT !.cursor = sz.next], sz.len,
                                     sz.next, end), LAMBDA pl :
                          IF ~pl.ok THEN Return(None(pl.s))
                          ELSE Return(Some(pl.s, DO_SkipLengthDelimited))))
      [] tag.wire_type = 3 ->
           Bind(push_group(s0, tag.field_number), LAMBDA pg :
                IF ~pg.ok THEN Return(None(pg.s))
                ELSE [t |-> "skip_group", s |-> pg.s])
      [] tag.wire_type = 4 ->
           Bind(pop_context(s0, end, TRUE, tag.field_number), LAMBDA pp :
                IF ~pp.ok THEN Return(None(pp.s)) ELSE Cont(pp.s))
      [] tag.wire_type = 5 -> Cont([s EXCEPT !.cursor = c + 4])
      [] OTHER -> Return(None(s0))

\* the body of 'parse_loop
parse_field(s, mem, end) ==
    Bind(read_tag(mem, s.cursor), LAMBDA tag :
         IF ~tag.ok THEN Return(None(s))
         ELSE Bind(entry(tag.field_number), LAMBDA e :
              Bind(IF e.some THEN known_field(s, mem, end, tag, e)
                   ELSE BreakUnknown, LAMBDA k :
                   IF k.t = "unknown" THEN unknown_field(s, mem, end, tag)
                   ELSE k)))

\* ------------------------------------------------------------------------
\* decode_loop, skip_group and the continuation functions
\* ------------------------------------------------------------------------

RECURSIVE decode_loop(_, _, _)
RECURSIVE skip_group(_, _, _)

\* the field loop of skip_group; limited_end is fixed at entry
skip_group_field(s, mem, end) ==
    Bind(read_tag(mem, s.cursor), LAMBDA tag :
    LET c   == tag.next
        s0  == [s EXCEPT !.cursor = c]
    IN
    IF ~tag.ok \/ tag.field_number = 0 THEN Return(None(s))
    ELSE
    CASE tag.wire_type = 0 ->
           Bind(read_varint(mem, c), LAMBDA v :
                IF ~v.ok THEN Return(None(s0))
                ELSE Cont([s EXCEPT !.cursor = v.next]))
      [] tag.wire_type = 1 -> Cont([s EXCEPT !.cursor = c + 8])
      [] tag.wire_type = 2 ->
           Bind(read_size(mem, c), LAMBDA sz :
           LET new_limit == sz.next - end + sz.len
               delta_limit == s.limit - new_limit
           IN
           IF ~sz.ok THEN Return(None(s0))
           ELSE IF sz.next - s.limited_end + sz.len <= SLOP_SIZE
           THEN Cont([s EXCEPT !.cursor = sz.next + sz.len])
           ELSE IF delta_limit < 0 \/ StackFull(s.stack)
           THEN Return(None(s0))
           ELSE Return(Some(
                  [s EXCEPT !.cursor = sz.next, !.limit = new_limit,
                            !.stack = Append(@, [has_obj |-> FALSE,
                                                 msg |-> <<>>,
                                                 delta |-> delta_limit])],
                  DO_SkipLengthDelimited)))
      [] tag.wire_type = 3 ->
           IF StackFull(s.stack) THEN Return(None(s0))
           ELSE Cont([s0 EXCEPT !.stack =
                        Append(@, [has_obj |-> FALSE, msg |-> <<>>,
                                   delta |-> -tag.field_number])])
      [] tag.wire_type = 4 ->
           IF s.stack = <<>> THEN Return(None(s0))
           ELSE LET e  == Top(s.stack)
                    s1 == [s0 EXCEPT !.stack = Pop(@)]
                IN
                IF -e.delta # tag.field_number THEN Return(None(s1))
                ELSE IF e.has_obj
                THEN [t |-> "decode_loop", s |-> [s1 EXCEPT !.msg = e.msg]]
                ELSE Cont(s1)
      [] tag.wire_type = 5 -> Cont([s EXCEPT !.cursor = c + 4])
      [] OTHER -> Return(None(s0)))

\* decode_loop entered with a fresh context: limited_end from ctx.limit
enter_decode_loop(s, mem, end) ==
    Bind([s EXCEPT !.limited_end = calc_limited_end(end, s.limit)],
         LAMBDA s1 : decode_loop(s1, mem, end))

enter_skip_group(s, mem, end) ==
    Bind([s EXCEPT !.limited_end = calc_limited_end(end, s.limit)],
         LAMBDA s1 : skip_group(s1, mem, end))

skip_group(s, mem, end) ==
    IF s.cursor < s.limited_end
    THEN Bind(skip_group_field(s, mem, end), LAMBDA o :
              IF o.t = "cont" THEN skip_group(o.s, mem, end)
              ELSE IF o.t = "decode_loop"
              THEN enter_decode_loop(o.s, mem, end)
              ELSE o.r)
    ELSE IF s.cursor - end = s.limit
    THEN IF s.stack = <<>> THEN Some(s, DO_None)
         ELSE LET e  == Top(s.stack)
                  s1 == [s EXCEPT !.stack = Pop(@)]
              IN
              \* at a limit with the group still open: parse failed
              IF ~e.has_obj \/ e.delta < 0 THEN None(s1)
              ELSE enter_decode_loop(
                     [s1 EXCEPT !.msg = e.msg, !.limit = s.limit + e.delta],
                     mem, end)
    ELSE IF s.cursor >= end THEN Some(s, DO_SkipGroup)
    ELSE None(s)

decode_loop(s, mem, end) ==
    IF s.cursor < s.limited_end
    THEN Bind(parse_field(s, mem, end), LAMBDA o :
              IF o.t = "cont" THEN decode_loop(o.s, mem, end)
              ELSE IF o.t = "skip_group" THEN enter_skip_group(o.s, mem, end)
              ELSE o.r)
    ELSE IF s.cursor - end = s.limit
    THEN IF s.stack = <<>> THEN Some(s, DO_None)
         ELSE Bind(pop_context(s, end, FALSE, 0), LAMBDA pp :
                   IF ~pp.ok THEN None(pp.s) ELSE decode_loop(pp.s, mem, end))
    ELSE IF s.cursor >= end THEN Some(s, DO_Message(s.msg))
    ELSE \* cursor # limited_end (cursor = limited_end < end implies
         \* cursor - end = limit, which was handled above)
         None(s)

\* stack.pop()?.into_context(limit, None)? followed by decode_loop
pop_and_decode(s, mem, end) ==
    Bind(pop_context(s, end, FALSE, 0), LAMBDA pp :
         IF ~pp.ok THEN None(pp.s) ELSE enter_decode_loop(pp.s, mem, end))

\* skip_length_delimited taking the rest of the payload in one step
skip_length_delimited_at_once(s, mem, end) ==
    Bind([s EXCEPT !.cursor = end + s.limit], LAMBDA s0 :
         IF s.stack = <<>> THEN None(s0)
         ELSE LET e  == Top(s.stack) IN
              IF ~e.has_obj
              THEN enter_skip_group(
                     [s0 EXCEPT !.stack = Pop(@),
                                !.limit = s.limit + e.delta], mem, end)
              ELSE pop_and_decode(s0, mem, end))

skip_length_delimited(s, mem, end) ==
    IF s.limit > SLOP_SIZE
    THEN Some([s EXCEPT !.cursor = end + SLOP_SIZE], DO_SkipLengthDelimited)
    ELSE Bind([s EXCEPT !.cursor = end + s.limit], LAMBDA s0 :
         IF s.stack = <<>> THEN None(s0)
         ELSE LET e  == Top(s.stack) IN
              IF ~e.has_obj
              THEN enter_skip_group(
                     [s0 EXCEPT !.stack = Pop(@),
                                !.limit = s.limit + e.delta], mem, end)
              ELSE pop_and_decode(s0, mem, end))

\* decode_string validating the bytes of the last slice alone
decode_string_by_slice(s, ref, validate_utf8, mem, end) ==
    IF s.limit > SLOP_SIZE
    THEN LET slice == read_slice(mem, s.cursor,
                                 SLOP_SIZE - (s.cursor - end))
             s1 == RefAppend([s EXCEPT !.cursor = end + SLOP_SIZE], ref, slice)
         IN Some(s1, DO_Bytes(ref, validate_utf8))
    ELSE Bind(read_slice(mem, s.cursor, s.limit - (s.cursor - end)),
              LAMBDA slice :
         Bind(RefAppend([s EXCEPT !.cursor = end + s.limit], ref, slice),
              LAMBDA s1 :
              IF validate_utf8 /\ ~from_utf8_is_ok(slice)
              THEN None(s1)
              ELSE pop_and_decode(s1, mem, end)))

decode_string(s, ref, validate_utf8, mem, end) ==
    IF s.limit > SLOP_SIZE
    THEN LET slice == read_slice(mem, s.cursor,
                                 SLOP_SIZE - (s.cursor - end))
             s1 == RefAppend([s EXCEPT !.cursor = end + SLOP_SIZE], ref, slice)
         IN Some(s1, DO_Bytes(ref, validate_utf8))
    ELSE Bind(read_slice(mem, s.cursor, s.limit - (s.cursor - end)),
              LAMBDA slice :
         Bind(RefAppend([s EXCEPT !.cursor = end + s.limit], ref, slice),
              LAMBDA s1 :
              \* Validate UTF-8 for string fields
              IF validate_utf8 /\ ~from_utf8_is_ok(RefSlice(s1.root, ref))
              THEN None(s1)
              ELSE pop_and_decode(s1, mem, end)))

\* decode_packed (varint = TRUE) and decode_fixed
decode_packed(s, ref, varint, mem, end) ==
    LET upto == IF s.limit > 0 THEN end ELSE calc_limited_end(end, s.limit)
    IN
    Bind(unpack(varint, mem, s.cursor, upto), LAMBDA u :
    Bind(RefPush([s EXCEPT !.cursor = u.cursor], ref, u.vals), LAMBDA s1 :
         IF ~u.ok THEN None(s1)
         ELSE IF s.limit > 0
         THEN Some(s1, IF varint THEN DO_PackedU32(ref)
                       ELSE DO_PackedFixed32(ref))
         ELSE pop_and_decode(s1, mem, end)))

\* ------------------------------------------------------------------------
\* ResumeableState::go_decode, ResumeableDecode
\*
\* A heap h is [stack, root, ub, arena, panic]: what go_decode reaches
\* through its &mut Stack, its &mut Arena and the pointers into the target
\* message, and whether a call panicked instead of returning.
\* ------------------------------------------------------------------------

\* the decoder context go_decode starts a continuation function with
Ctx(state, cursor, end, h) ==
    [cursor |-> cursor, limit |-> state.limit,
     limited_end |-> calc_limited_end(end, state.limit),
     msg |-> IF state.object.k = "Message" THEN state.object.msg ELSE <<>>,
     stack |-> h.stack, root |-> h.root, ub |-> h.ub, arena |-> h.arena,
     panic |-> FALSE]

\* the match on self.object
dispatch(object, s, mem, end) ==
    CASE object.k = "Message" -> decode_loop(s, mem, end)
      [] object.k = "Bytes" ->
             decode_string(s, object.ref, object.validate_utf8, mem, end)
      [] object.k = "SkipLengthDelimited" -> skip_length_delimited(s, mem, end)
      [] object.k = "SkipGroup" -> skip_group(s, mem, end)
      [] object.k = "PackedU32" -> decode_packed(s, object.ref, TRUE, mem, end)
      [] object.k = "PackedFixed32" ->
             decode_packed(s, object.ref, FALSE, mem, end)

\* go_decode over the slice mem[0 .. len), with the bytes after it readable
go_decode(state, mem, len, h) ==
    LET st1 == [state EXCEPT !.limit = @ - len] IN
    IF state.overrun >= len
    THEN [ok |-> TRUE, state |-> [st1 EXCEPT !.overrun = @ - len], h |-> h]
    ELSE Bind(Ctx(st1, state.overrun, len, h), LAMBDA ctx :
         Bind(dispatch(state.object, ctx, mem, len), LAMBDA r :
              [ok    |-> r.ok,
               state |-> [limit |-> r.limit, object |-> r.object,
                          overrun |-> r.cursor - len],
               h     |-> [stack |-> r.stack, root |-> r.root, ub |-> r.ub,
                          arena |-> r.arena, panic |-> r.panic]]))

ZeroPatch == [i \in 1..(2 * SLOP_SIZE) |-> 0]

\* ResumeableDecode::new
new(msg, limit) ==
    [state        |-> [limit |-> limit, object |-> DO_Message(msg),
                       overrun |-> SLOP_SIZE],
     patch_buffer |-> ZeroPatch]

\* patch_buffer[from ..][.. Len(src)].copy_from_slice(src), from 0-based
CopyInto(pb, from, src) ==
    [i \in 1..Len(pb) |->
        IF i > from /\ i <= from + Len(src) THEN src[i - from] ELSE pb[i]]

\* ResumeableDecode::resume_impl.  On None the state is not written back;
\* the patch buffer, the stack and the target keep what was done to them.
resume_impl(d, buf, h) ==
    LET size == Len(buf) IN
    IF d.state.object.k = "None"
    THEN \* Already finished
         [ok |-> FALSE, d |-> d, h |-> h]
    ELSE IF size > SLOP_SIZE
    THEN Bind(CopyInto(d.patch_buffer, SLOP_SIZE, SubSeq(buf, 1, SLOP_SIZE)),
              LAMBDA pb1 :
         Bind(go_decode(d.state, pb1, SLOP_SIZE, h), LAMBDA g1 :
              LET d1 == [d EXCEPT !.patch_buffer = pb1] IN
              IF ~g1.ok \/ g1.state.object.k = "None"
              THEN \* failed, or ended on 0 tag
                   [ok |-> FALSE, d |-> d1, h |-> g1.h]
              ELSE
              Bind(go_decode(g1.state, buf, size - SLOP_SIZE, g1.h),
                   LAMBDA g2 :
                   IF ~g2.ok THEN [ok |-> FALSE, d |-> d1, h |-> g2.h]
                   ELSE [ok |-> TRUE,
                         d  |-> [state |-> g2.state,
                                 patch_buffer |->
                                     CopyInto(pb1, 0,
                                              SubSeq(buf, size - SLOP_SIZE + 1,
                                                     size))],
                         h  |-> g2.h])))
    ELSE Bind(CopyInto(d.patch_buffer, SLOP_SIZE, buf), LAMBDA pb1 :
         Bind(go_decode(d.state, pb1, size, h), LAMBDA g :
              IF ~g.ok
              THEN [ok |-> FALSE, d |-> [d EXCEPT !.patch_buffer = pb1],
                    h |-> g.h]
              ELSE [ok |-> TRUE,
                    d  |-> [state |-> g.state,
                            patch_buffer |->
                                CopyInto(pb1, 0,
                                         SubSeq(pb1, size + 1,
                                                size + SLOP_SIZE))],
                    h  |-> g.h]))

\* a finish that does not look at the overrun
finish_any_overrun(d, h) ==
    IF d.state.object.k = "None"
    THEN [ok |-> FALSE, state |-> d.state, h |-> h]
    ELSE Bind(go_decode(d.state, d.patch_buffer, SLOP_SIZE, h), LAMBDA g :
              [ok    |-> g.ok /\ g.state.object.k = "Message"
                         /\ g.h.stack = <<>>,
               state |-> g.state,
               h     |-> g.h])

\* ResumeableDecode::finish; state is the ResumeableState finish holds when
\* it returns
finish(d, h) ==
    IF d.state.object.k = "None"
    THEN [ok |-> FALSE, state |-> d.state, h |-> h]
    ELSE Bind(go_decode(d.state, d.patch_buffer, SLOP_SIZE, h), LAMBDA g :
              [ok    |-> g.ok /\ g.state.overrun = 0
                         /\ g.state.object.k = "Message" /\ g.h.stack = <<>>,
               state |-> g.state,
               h     |-> g.h])

\* a clear that leaves the object as it is
clear_kept(root) == root

\* DynamicMessage::clear: zero the table.size bytes of the object
clear(root) == ZeroObject

NewHeap(root, arena) ==
    [stack |-> <<>>, root |-> root, ub |-> FALSE, arena |-> arena,
     panic |-> FALSE]

\* ProtobufMut::decode_flat; a panic unwinds past the clear
decode_flat(root, arena, buf) ==
    Bind(resume_impl(new(<<>>, ISIZE_MAX), buf, NewHeap(root, arena)),
         LAMBDA r :
         IF r.h.panic
         THEN [ok |-> FALSE, root |-> r.h.root, ub |-> r.h.ub,
               panic |-> TRUE]
         ELSE IF ~r.ok
         THEN [ok |-> FALSE, root |-> clear(r.h.root), ub |-> r.h.ub,
               panic |-> FALSE]
         ELSE Bind(finish(r.d, r.h), LAMBDA f :
                   IF f.h.panic
                   THEN [ok |-> FALSE, root |-> f.h.root, ub |-> f.h.ub,
                         panic |-> TRUE]
                   ELSE IF ~f.ok
                   THEN [ok |-> FALSE, root |-> clear(f.h.root),
                         ub |-> f.h.ub, panic |-> FALSE]
                   ELSE [ok |-> TRUE, root |-> f.h.root, ub |-> f.h.ub,
                         panic |-> FALSE]))

\* ------------------------------------------------------------------------
\* Inputs: wire bytes put together from field encodings
\* ------------------------------------------------------------------------

\* n copies of the byte b
Rep(b, n) == [i \in 1..n |-> b]

\* a length-delimited record: one tag byte, one length byte, the payload
LD(tag, payload) == <<tag, Len(payload)>> \o payload

\* "Hello World!12345678": 20 bytes of ASCII
Hello == <<72, 101, 108, 108, 111, 32, 87, 111, 114, 108, 100, 33,
           49, 50, 51, 52, 53, 54, 55, 56>>

Range(f) == {f[i] : i \in DOMAIN f}

RECURSIVE Concat(_)
Concat(ss) == IF ss = <<>> THEN <<>> ELSE Head(ss) \o Concat(Tail(ss))

\* the sequences of at most n elements of S
SeqsUpTo(S, n) == UNION {[1..k -> S] : k \in 0..n}

\* payload wrapped in k levels of child1 { ... }
RECURSIVE Nest(_, _)
Nest(k, payload) == IF k = 0 THEN payload ELSE LD(34, Nest(k - 1, payload))

\* ------------------------------------------------------------------------
\* Reading a message (reflection.rs)
\* ------------------------------------------------------------------------

\* the u32 an Object::get::<u32> finds in the first word of the union slot
WordU32(cell) ==
    IF cell.t = "int" THEN cell.v ELSE IF cell.t = "null" THEN ZeroU32
    ELSE <<1, 1, 1, 1, 1>>  \* the low half of a pointer

Absent == [some |-> FALSE]
Present(val) == [some |-> TRUE, val |-> val]

\* the field numbers of Test
FieldNumbers == 1..(Len(DecodeEntries) - 1)

\* DynamicMessageRef::get_field for every field of Test, sub-messages read
\* in turn: field number |-> None or Some(value)
RECURSIVE get_fields(_)
get_field(o, field_number) ==
    LET e == entry(field_number) IN
    CASE e.kind \in {"RepeatedInt32", "RepeatedFixed32", "RepeatedString"} ->
           IF o[e.offset] = <<>> THEN Absent ELSE Present(o[e.offset])
      [] e.kind = "RepeatedMessage" ->
           IF o[e.offset] = <<>> THEN Absent
           ELSE Present([i \in DOMAIN o[e.offset] |->
                            get_fields(o[e.offset][i])])
      [] e.has_bit_idx >= 128 /\ o.disc # field_number -> Absent
      [] e.has_bit_idx < 128 /\ e.kind \notin {"Message", "Group"}
           /\ e.has_bit_idx \notin o.hb -> Absent
      [] e.kind \in {"Message", "Group"} ->
           LET cell == IF e.offset = "u" THEN o.u.ptr ELSE o[e.offset] IN
           IF is_null(cell) THEN Absent
           ELSE IF cell.t = "obj" THEN Present(get_fields(cell.o))
           ELSE Present("garbage")
      [] e.kind = "String" ->
           Present(IF e.offset = "u" THEN bytes_slice(o.u) ELSE o[e.offset])
      [] e.kind = "Varint32" -> Present(WordU32(o.u.ptr))
      [] OTHER -> Present(o[e.offset])

get_fields(o) == [f \in FieldNumbers |-> get_field(o, f)]

\* ------------------------------------------------------------------------
\* The encoder (crate::encoding): fields in declaration order, each present
\* field as tag and value; one stack frame per sub-message or group entered
\* ------------------------------------------------------------------------

\* the bytes of a varint from its 7-bit groups
VarintBytes(g) ==
    LET used == {i \in DOMAIN g : g[i] # 0}
        n    == IF used = {} THEN 1
                ELSE CHOOSE i \in used : \A j \in used : j <= i
    IN [i \in 1..n |-> IF i < n THEN g[i] + 128 ELSE g[i]]

\* `as u64` of a u32
U32AsU64(v) == v \o <<0, 0, 0, 0, 0>>

\* `as i64 as u64` of an i32: bits 32..63 copy the sign bit
I32AsU64(v) ==
    IF v[5] >= 8 THEN <<v[1], v[2], v[3], v[4], v[5] + 112,
                        127, 127, 127, 127, 1>>
    ELSE U32AsU64(v)

\* a length as a varint
SizeBytes(n) == IF n < 128 THEN <<n>> ELSE <<128 + (n % 128), n \div 128>>

Record(tag, payload) ==
    Bind(payload, LAMBDA p : <<tag>> \o SizeBytes(Len(p)) \o p)

\* the encoding of each element of a sequence of results, None when one is
AllOk(rs) == \A i \in DOMAIN rs : rs[i].ok
Joined(rs) == Concat([i \in DOMAIN rs |-> rs[i].bytes])

RECURSIVE encode_message(_, _)
\* one encode entry; frames: the stack frames still free
encode_field(o, field_number, frames) ==
    LET e    == entry(field_number)
        Ok(b) == [ok |-> TRUE, bytes |-> b]
        Skip == Ok(<<>>)
        Fail == [ok |-> FALSE, bytes |-> <<>>]
        tag(wire_type) == field_number * 8 + wire_type
        sub(c, group) ==
            IF frames = 0 THEN Fail
            ELSE Bind(encode_message(c, frames - 1), LAMBDA r :
                      IF ~r.ok THEN Fail
                      ELSE IF group
                      THEN Ok(<<tag(3)>> \o r.bytes \o <<tag(4)>>)
                      ELSE Ok(Record(tag(2), r.bytes)))
        oneof == e.has_bit_idx >= 128
        present == IF oneof THEN o.disc = field_number
                   ELSE e.has_bit_idx \in o.hb
    IN
    CASE e.kind = "Int32" ->
           IF ~present THEN Skip
           ELSE Ok(<<tag(0)>> \o VarintBytes(I32AsU64(o[e.offset])))
      [] e.kind = "Varint32" ->
           IF ~present THEN Skip
           ELSE Ok(<<tag(0)>> \o VarintBytes(U32AsU64(WordU32(o.u.ptr))))
      [] e.kind = "Fixed64" ->
           IF ~present THEN Skip ELSE Ok(<<tag(1)>> \o o[e.offset])
      [] e.kind = "String" ->
           IF ~present THEN Skip
           ELSE Ok(Record(tag(2), IF oneof THEN bytes_slice(o.u)
                                  ELSE o[e.offset]))
      [] e.kind \in {"Message", "Group"} ->
           LET cell == IF oneof THEN o.u.ptr ELSE o[e.offset] IN
           IF (oneof /\ ~present) \/ is_null(cell) \/ cell.t # "obj" THEN Skip
           ELSE sub(cell.o, e.kind = "Group")
      [] e.kind = "RepeatedMessage" ->
           Bind([i \in DOMAIN o[e.offset] |-> sub(o[e.offset][i], FALSE)],
                LAMBDA rs : IF AllOk(rs) THEN Ok(Joined(rs)) ELSE Fail)
      [] e.kind = "RepeatedString" ->
           Ok(Concat([i \in DOMAIN o[e.offset] |->
                         Record(tag(2), o[e.offset][i])]))
      [] e.kind = "RepeatedInt32" ->
           \* declared [packed = true]
           IF o[e.offset] = <<>> THEN Skip
           ELSE Ok(Record(tag(2),
                          Concat([i \in DOMAIN o[e.offset] |->
                                     VarintBytes(I32AsU64(o[e.offset][i]))])))
      [] e.kind = "RepeatedFixed32" ->
           \* not packed
           Ok(Concat([i \in DOMAIN o[e.offset] |->
                         <<tag(5)>> \o o[e.offset][i]]))
      [] OTHER -> Skip

encode_message(o, frames) ==
    Bind([f \in FieldNumbers |-> encode_field(o, f, frames)], LAMBDA rs :
         [ok |-> AllOk(rs), bytes |-> Joined(rs)])

\* ResumeableEncode::<STACK_DEPTH>::new(msg).resume_encode(buffer):
\* None, NeedsMoreBuffer or Done(bytes)
resume_encode(o, buffer_len) ==
    Bind(encode_message(o, STACK_DEPTH), LAMBDA r :
         IF ~r.ok THEN [t |-> "None"]
         ELSE IF Len(r.bytes) > buffer_len THEN [t |-> "NeedsMoreBuffer"]
         ELSE [t |-> "Done", bytes |-> r.bytes])

\* ProtobufRef::encode_flat
encode_flat(o, buffer_len) ==
    Bind(resume_encode(o, buffer_len), LAMBDA r :
         IF r.t = "None"
         THEN [ok |-> FALSE, err |-> "TreeTooDeep", bytes |-> <<>>]
         ELSE IF r.t # "Done"
         THEN [ok |-> FALSE, err |-> "BufferTooSmall", bytes |-> <<>>]
         ELSE [ok |-> TRUE, err |-> "", bytes |-> r.bytes])

\* ResumeableEncode::new: nothing of msg's encoding is written yet
ResumeableEncode_new(o) == [msg |-> o, written |-> 0]

\* ResumeableEncode::resume_encode on a buffer of buffer_len bytes: the
\* encoder writes the encoding from its end into the tail of the buffer and
\* asks for another buffer when this one is full
resume_encode_from(e, buffer_len) ==
    Bind(encode_message(e.msg, STACK_DEPTH), LAMBDA r :
         IF ~r.ok THEN [t |-> "None"]
         ELSE Bind(Len(r.bytes) - e.written, LAMBDA rest :
              IF rest > buffer_len
              THEN [t |-> "NeedsMoreBuffer",
                    buffer |-> SubSeq(r.bytes, rest - buffer_len + 1, rest),
                    e |-> [e EXCEPT !.written = @ + buffer_len]]
              ELSE [t |-> "Done", bytes |-> SubSeq(r.bytes, 1, rest)]))

VEC_BUFFER == 1024
VEC_BUFFER_MAX == 1048576

extend_from_stack_fifo(buffer, stack) == buffer \o Concat(stack)


\* the loop that ends encode_vec: each buffer popped off the stack is
\* appended to the last one
RECURSIVE extend_from_stack(_, _)
extend_from_stack(buffer, stack) ==
    IF stack = <<>> THEN buffer
    ELSE extend_from_stack(buffer \o stack[Len(stack)],
                           SubSeq(stack, 1, Len(stack) - 1))

RECURSIVE encode_vec_loop(_, _, _)
encode_vec_loop(e, buffer_len, stack) ==
    Bind(resume_encode_from(e, buffer_len), LAMBDA r :
         IF r.t = "None"
         THEN [ok |-> FALSE, err |-> "TreeTooDeep", bytes |-> <<>>]
         ELSE IF r.t = "Done"
         THEN [ok |-> TRUE, err |-> "",
               bytes |-> extend_from_stack(r.bytes, stack)]
         ELSE encode_vec_loop(
                  r.e,
                  (IF buffer_len < VEC_BUFFER_MAX THEN buffer_len
                   ELSE VEC_BUFFER_MAX) * 2,
                  Append(stack, r.buffer)))

\* ProtobufRef::encode_vec
encode_vec(o) == encode_vec_loop(ResumeableEncode_new(o), VEC_BUFFER, <<>>)


\* ------------------------------------------------------------------------
\* Building a message (the generated accessors of Test)
\* ------------------------------------------------------------------------

S12 == Rep(97, 12)
MinusOne == <<127, 127, 127, 127, 15>>
U32(n) == <<n % 128, n \div 128, 0, 0, 0>>
Fixed32(n) == <<n, 0, 0, 0>>

\* the accessor calls a message is built with
Setters ==
    { [op |-> "set_x", val |-> MinusOne],
      [op |-> "set_z", val |-> Hello],
      [op |-> "v_push", val |-> U32(136)],
      [op |-> "rs_push", val |-> S12],
      [op |-> "rf_push", val |-> Fixed32(7)],
      [op |-> "set_o_str", val |-> <<115>>],
      [op |-> "child1_mut_set_x", val |-> U32(2)] }

apply_setter(o, c) ==
    CASE c.op = "set_x" -> set(o, "x", entry(1).has_bit_idx, c.val)
      [] c.op = "set_z" ->
           [set_has_bit(o, entry(3).has_bit_idx) EXCEPT !.z = c.val]
      [] c.op = "v_push" -> [o EXCEPT !.v = Append(@, c.val)]
      [] c.op = "rs_push" -> [o EXCEPT !.rs = Append(@, c.val)]
      [] c.op = "rf_push" -> [o EXCEPT !.rf = Append(@, c.val)]
      [] c.op = "set_o_str" ->
           [o EXCEPT !.disc = 10,
                     !.u = [ptr |-> [t |-> "buf", data |-> c.val],
                            cap |-> Len(c.val), len |-> Len(c.val)]]
      [] c.op = "child1_mut_set_x" ->
           LET child == IF is_null(o.child1) THEN ZeroObject ELSE o.child1.o
           IN [o EXCEPT !.child1 =
                   ObjPtr(set(child, "x", entry(1).has_bit_idx, c.val))]

RECURSIVE apply_setters(_, _)
apply_setters(o, cs) ==
    IF cs = <<>> THEN o
    ELSE Bind(apply_setter(o, Head(cs)), LAMBDA o1 :
              apply_setters(o1, Tail(cs)))

\* o reached through k calls of child1_mut() from a new message
RECURSIVE Wrap(_, _)
Wrap(k, o) ==
    IF k = 0 THEN o ELSE [ZeroObject EXCEPT !.child1 = ObjPtr(Wrap(k - 1, o))]

\* the message k levels of child1 below o
RECURSIVE Inner(_, _)
Inner(o, k) == IF k = 0 THEN o ELSE Inner(o.child1.o, k - 1)

SetMax(S) == IF S = {} THEN 0 ELSE CHOOSE m \in S : \A n \in S : n <= m

\* the levels of sub-messages and groups below o
RECURSIVE Depth(_)
Depth(o) ==
    LET below(cell) == IF cell.t = "obj" THEN {1 + Depth(cell.o)} ELSE {} IN
    SetMax(below(o.child1) \cup below(o.grp)
             \cup (IF o.disc = 11 THEN below(o.u.ptr) ELSE {})
             \cup {1 + Depth(o.nested[i]) : i \in DOMAIN o.nested})

\* ------------------------------------------------------------------------
\* The state machine.  A run takes one input through the library: a message
\* built with the accessors is encoded (encode_flat), or the bytes are given;
\* the bytes are decoded in one piece (decode_flat); then the result is
\* encoded again, or the bytes are decoded chunk by chunk as decode does it
\* (resume per chunk, then finish).
\* ------------------------------------------------------------------------

\* bounds of the model
MaxItems == 3
MaxFed == 2
MaxCut == 2
MaxServed == 2

\* the buffer handed to encode_flat
BufferLen == 256

VARIABLES
    arena,   \* the arena: for the decoder, the requests it still serves;
             \* for its own operations, its fields
    items,   \* what the input is put together from: field encodings or
             \* accessor calls
    nest,    \* the levels of child1 { } wrapped around them
    cut,     \* the bytes missing at the end of the input
    src,     \* the message to encode
    enc,     \* encode_flat's result for src
    input,   \* the bytes to decode
    flat,    \* decode_flat's return value and its target message
    out,     \* encode_flat's result for the message decode_flat filled
    pos,     \* bytes of input handed to resume so far
    d,       \* the ResumeableDecode of the streaming decode
    h,       \* its stack and its target message
    phase,   \* where the run stands
    pool,    \* the tables of the descriptor pool, by message type name
    same,    \* the outcome of comparing a pool table with the generated one
    blocks,  \* the MemBlock headers the arena wrote, by block address
    sys,     \* the allocator behind the arena: what it handed out and took back
    ret      \* the last alloc_raw: its layout and what it returned

vars == <<arena, items, nest, cut, src, enc, input, flat, out, pos, d, h, phase,
          pool, same, blocks, sys, ret>>

\* what the codec leaves alone
aside == <<pool, same, blocks, sys, ret>>

\* DescriptorPool::new: no table yet
NoTables == [name \in {} |-> {}]
NotCompared == [name |-> <<>>, verdict |-> ""]
\* no block handed out; the allocator's memory starts at HeapBase
HeapBase == 16 * 1024
NoBlocks == [ptr \in {} |-> {}]
Sys0 == [brk |-> HeapBase, live |-> {}, freed |-> <<>>]
NoCall == [calls |-> 0, failed |-> 0, layout |-> [size |-> 0, align |-> 1],
           ok |-> FALSE, ptr |-> 0, err |-> ""]
AsideIdle ==
    /\ pool = NoTables
    /\ same = NotCompared
    /\ blocks = NoBlocks
    /\ sys = Sys0
    /\ ret = NoCall

\* the chunk lengths the provider hands out: empty, short, and longer than
\* the lookahead margin
ChunkSizes == {0, 1, 4, SLOP_SIZE + 1}

Idle == [st |-> "idle", root |-> ZeroObject]
NotEncoded == [st |-> "idle", bytes |-> <<>>]

InitIn(a, its, n, c, m, bytes, ph) ==
    /\ arena = a
    /\ items = its
    /\ nest = n
    /\ cut = c
    /\ src = m
    /\ enc = NotEncoded
    /\ input = bytes
    /\ flat = Idle
    /\ out = NotEncoded
    /\ pos = 0
    /\ d = new(<<>>, ISIZE_MAX)
    /\ h = NewHeap(ZeroObject, a)
    /\ phase = ph
    /\ AsideIdle

\* with an arena that serves every request
InitOn(its, n, c, m, bytes, ph) == InitIn(Ample, its, n, c, m, bytes, ph)

DropLast(s, c) == SubSeq(s, 1, Len(s) - c)

\* inputs of at most max of the given pieces, bare or nested as deep as the
\* stack has frames
InitFrom(pieces, max) ==
    \E its \in SeqsUpTo(pieces, max), n \in {0, STACK_DEPTH} :
        InitOn(its, n, 0, ZeroObject, Nest(n, Concat(its)), "bytes")

\* such inputs with the last bytes missing, fewer than the last piece has
InitCutFrom(pieces) ==
    \E its \in SeqsUpTo(pieces, MaxFed) \ {<<>>}, n \in {0, STACK_DEPTH},
       c \in 0..MaxCut :
        /\ c < Len(its[Len(its)])
        /\ InitOn(its, n, c, ZeroObject, DropLast(Nest(n, Concat(its)), c),
                  "bytes")

\* messages built by at most MaxItems accessor calls
InitRound ==
    \E its \in SeqsUpTo(Setters, MaxItems), n \in {0, STACK_DEPTH} :
        InitOn(its, n, 0, Wrap(n, apply_setters(ZeroObject, its)), <<>>,
               "message")

GeneralPieces ==
    { <<8, 5>>,                               \* x = 5
      LD(26, Hello),                          \* z, 20 bytes
      LD(34, <<8, 2>>),                       \* child1 { x = 2 }
      <<163, 1, 8, 1, 164, 1>>,               \* unknown group { 1: 1 }
      <<0>>,                                  \* the 0 tag
      <<58, 2, 1, 136, 1>> }                  \* packed: last varint overshoots

Init == InitFrom(GeneralPieces, MaxFed)

\* what a call that ran into undefined behaviour may have done: gone on
\* with the word it found treated as the pointer it expected, or aborted
Outcomes(ub) == IF ub THEN {"goes_on", "aborts"} ELSE {"goes_on"}

\* src.encode_flat::<STACK_DEPTH>(&mut buffer)
Encode ==
    /\ phase = "message"
    /\ \E r \in {encode_flat(src, BufferLen)} :
       /\ enc' = [st |-> IF r.ok THEN "ok" ELSE r.err, bytes |-> r.bytes]
       /\ input' = r.bytes
       /\ phase' = IF r.ok THEN "bytes" ELSE "refused"
    /\ UNCHANGED <<aside, arena, items, nest, cut, src, flat, out, pos, d, h>>

\* msg.decode_flat::<STACK_DEPTH>(arena, input)
DecodeFlat ==
    /\ phase = "bytes"
    /\ \E r \in {decode_flat(ZeroObject, arena, input)} :
       \E outcome \in Outcomes(r.ub) :
          flat' = IF outcome = "aborts" THEN [st |-> "abort", root |-> r.root]
                  ELSE IF r.panic THEN [st |-> "panic", root |-> r.root]
                  ELSE [st |-> IF r.ok THEN "true" ELSE "false",
                        root |-> r.root]
    /\ phase' = "decoded"
    /\ UNCHANGED <<aside, arena, items, nest, cut, src, enc, input, out, pos, d, h>>

\* the message decode_flat filled is encoded again
ReEncode ==
    /\ phase = "decoded"
    /\ flat.st = "true"
    /\ \E r \in {encode_flat(flat.root, BufferLen)} :
       out' = [st |-> IF r.ok THEN "ok" ELSE r.err, bytes |-> r.bytes]
    /\ phase' = "reencoded"
    /\ UNCHANGED <<aside, arena, items, nest, cut, src, enc, input, flat, pos, d, h>>

\* one turn of decode's loop: the provider hands over the next k bytes
Resume(k) ==
    /\ phase \in {"decoded", "feeding"}
    /\ pos + k <= Len(input)
    /\ \E r \in {resume_impl(d, SubSeq(input, pos + 1, pos + k), h)} :
       \E outcome \in Outcomes(r.h.ub /\ ~h.ub) :
          /\ d' = r.d
          /\ pos' = pos + k
          /\ IF outcome = "aborts"
             THEN phase' = "abort" /\ h' = r.h
             ELSE IF r.h.panic THEN phase' = "panic" /\ h' = r.h
             ELSE IF r.ok THEN phase' = "feeding" /\ h' = r.h
             ELSE phase' = "failed"
                  /\ h' = [r.h EXCEPT !.root = clear(r.h.root)]
    /\ UNCHANGED <<aside, arena, items, nest, cut, src, enc, input, flat, out>>

\* the provider is out of chunks: decoder.finish; d keeps the state finish
\* returned with
Finish ==
    /\ phase \in {"decoded", "feeding"}
    /\ pos = Len(input)
    /\ \E f \in {finish(d, h)} :
       /\ d' = [d EXCEPT !.state = f.state]
       /\ \E outcome \in Outcomes(f.h.ub /\ ~h.ub) :
             IF outcome = "aborts"
             THEN phase' = "abort" /\ h' = f.h
             ELSE IF f.h.panic THEN phase' = "panic" /\ h' = f.h
             ELSE IF f.ok THEN phase' = "done" /\ h' = f.h
             ELSE phase' = "unfinished"
                  /\ h' = [f.h EXCEPT !.root = clear(f.h.root)]
    /\ UNCHANGED <<aside, arena, items, nest, cut, src, enc, input, flat, out, pos>>

\* decoding given bytes, in one piece and in chunks
Next ==
    \/ DecodeFlat
    \/ \E k \in ChunkSizes : Resume(k)
    \/ Finish

Spec == Init /\ [][Next]_vars

\* decoding given bytes and encoding the result
NextFlat ==
    \/ DecodeFlat
    \/ ReEncode

\* encoding a message, decoding what the encoder wrote, encoding the result
NextRound ==
    \/ Encode
    \/ DecodeFlat
    \/ ReEncode

SpecRound == InitRound /\ [][NextRound]_vars

\* ------------------------------------------------------------------------
\* The specifications: the inputs each takes through the library
\* ------------------------------------------------------------------------

\* fields whose encodings lose their last bytes
CutPieces ==
    { <<8, 133, 1>>,                          \* x = 133, a two-byte varint
      <<17, 2, 0, 0, 0, 0, 0, 0, 0>>,         \* y = 2, fixed64
      LD(26, <<104, 105>>),                   \* z = "hi"
      LD(34, <<8, 2, 8, 3>>),                 \* child1 { x = 2  x = 3 }
      <<43, 8, 3, 44>>,                       \* grp { x = 3 }
      <<160, 1, 5>> }                         \* unknown 20 = 5, two-byte tag

InitCut == InitCutFrom(CutPieces)

SpecCut == InitCut /\ [][Next]_vars

\* string fields with payloads that are not UTF-8, among valid fields
BadUtf8 ==
    { <<26, 3, 97, 255, 98>>,                       \* z = a FF b
      LD(26, SubSeq(Hello, 1, 19) \o <<255>>),      \* z, 20 bytes, last FF
      <<82, 1, 255>>,                               \* o_str = FF
      <<66, 2, 195, 40>> }                          \* rs += C3 28

Utf8Pieces == BadUtf8 \cup { <<26, 2, 195, 169>>, <<8, 5>> }

InitUtf8 == InitFrom(Utf8Pieces, MaxFed)

SpecUtf8 == InitUtf8 /\ [][Next]_vars

HasBadUtf8 == \E i \in DOMAIN items : items[i] \in BadUtf8

\* packed repeated fields among other fields
PackedV == LD(58, <<1, 136, 1>>)                     \* v = [1, 136]
PackedRf == LD(98, Fixed32(7) \o Fixed32(8))         \* rf = [7, 8]
PackedNone == LD(58, <<>>)                           \* v, no element

PackedPieces ==
    { PackedV, PackedRf, PackedNone, <<8, 5>>, LD(66, S12), LD(26, Hello) }

\* the piece with its elements one by one
Unpacked(piece) ==
    CASE piece = PackedV -> <<56, 1, 56, 136, 1>>
      [] piece = PackedRf -> <<101>> \o Fixed32(7) \o <<101>> \o Fixed32(8)
      [] piece = PackedNone -> <<>>
      [] OTHER -> piece

InitPacked == InitFrom(PackedPieces, MaxItems)

SpecPacked == InitPacked /\ [][NextFlat]_vars

\* known fields and well-formed fields of the unknown number 20
KnownPieces == { <<8, 5>>, PackedV, LD(26, <<104, 105>>) }

UnknownFields ==
    { <<160, 1, 5>>,                               \* varint
      <<165, 1, 1, 2, 3, 4>>,                      \* fixed32
      <<161, 1, 1, 2, 3, 4, 5, 6, 7, 8>>,          \* fixed64
      <<162, 1, 12>> \o S12,                       \* length-delimited
      <<163, 1, 8, 1, 164, 1>> }                   \* group { 1: 1 }

InitUnknown == InitFrom(KnownPieces \cup UnknownFields, MaxItems)

SpecUnknown == InitUnknown /\ [][NextFlat]_vars

IsKnown(piece) == piece \in KnownPieces

\* occurrences of the arms of the oneof
ArmInt5 == <<72, 5>>                                \* o_int = 5
ArmInt0 == <<72, 0>>                                \* o_int = 0
ArmStr == <<82, 1, 115>>                            \* o_str = "s"
ArmStrEmpty == <<82, 0>>                            \* o_str = ""
ArmMsg == <<90, 2, 8, 2>>                           \* o_msg { x = 2 }
ArmMsgEmpty == <<90, 0>>                            \* o_msg { }

ArmPieces == {ArmInt5, ArmInt0, ArmStr, ArmStrEmpty, ArmMsg, ArmMsgEmpty}

\* the arm of an occurrence and the value it carries
ArmOf(piece) == piece[1] \div 8

Carried(piece) ==
    CASE piece = ArmInt5 -> U32(5)
      [] piece = ArmInt0 -> U32(0)
      [] piece = ArmStr -> <<115>>
      [] piece = ArmStrEmpty -> <<>>
      [] piece = ArmMsg -> get_fields(set(ZeroObject, "x", 0, U32(2)))
      [] piece = ArmMsgEmpty -> get_fields(ZeroObject)

InitOneof == InitFrom(ArmPieces, MaxItems)

SpecOneof == InitOneof /\ [][NextFlat]_vars

\* occurrences of the repeated fields v (7), rf (12) and rs (8): packed
\* blocks, one of them longer than the lookahead margin, and single elements
OrdPacked == LD(58, <<1, 136, 1>>)                   \* v += [1, 136]
OrdLong == LD(58, [i \in 1..(SLOP_SIZE + 2) |-> i])  \* v += [1, ..., 18]
OrdSingle == <<56, 3>>                               \* v += 3
OrdFixedPacked == LD(98, Fixed32(7) \o Fixed32(8))   \* rf += [7, 8]
OrdFixedSingle == <<101>> \o Fixed32(9)              \* rf += 9
OrdString == LD(66, <<97, 98>>)                      \* rs += "ab"

OrdPieces ==
    { OrdPacked, OrdLong, OrdSingle, OrdFixedPacked, OrdFixedSingle,
      OrdString }

\* the field of an occurrence and the elements it carries, in wire order
OrdField(piece) == piece[1] \div 8

OrdElements(piece) ==
    CASE piece = OrdPacked -> <<U32(1), U32(136)>>
      [] piece = OrdLong -> [i \in 1..(SLOP_SIZE + 2) |-> U32(i)]
      [] piece = OrdSingle -> <<U32(3)>>
      [] piece = OrdFixedPacked -> <<Fixed32(7), Fixed32(8)>>
      [] piece = OrdFixedSingle -> <<Fixed32(9)>>
      [] piece = OrdString -> << <<97, 98>> >>

\* the elements of field f on the wire, first to last
OnWire(f) ==
    Concat([i \in DOMAIN items |->
               IF OrdField(items[i]) = f THEN OrdElements(items[i])
               ELSE <<>>])

\* what the container of f reads as when it holds exactly these elements
Holding(elements) ==
    IF elements = <<>> THEN Absent ELSE Present(elements)

\* arenas that serve every request, or none, or the first few
Arenas == {Ample} \cup {Serving(k) : k \in 0..MaxServed}

\* such inputs, bare or nested, with an arena that serves every request;
\* and, bare, those without strings with an arena that may be used up
InitOrder ==
    \/ InitFrom(OrdPieces, MaxFed)
    \/ \E its \in SeqsUpTo(OrdPieces \ {OrdString}, MaxFed),
          k \in 0..MaxServed :
          InitIn(Serving(k), its, 0, 0, ZeroObject, Concat(its), "bytes")

SpecOrder == InitOrder /\ [][Next]_vars

\* occurrences of the message-typed fields, and a scalar
MsgChild == LD(34, <<8, 2>>)                         \* child1 { x = 2 }
MsgGroup == <<43, 8, 3, 44>>                         \* grp { x = 3 }
MsgArm == LD(90, <<8, 2>>)                           \* o_msg { x = 2 }
MsgNested == LD(50, <<8, 2>>)                        \* nested += { x = 2 }

MsgPieces == {MsgChild, MsgGroup, MsgArm, MsgNested}

\* such inputs with an arena that serves every request, or only the first
\* few
InitAlloc ==
    \E its \in SeqsUpTo(MsgPieces \cup {<<8, 5>>}, MaxFed), a \in Arenas :
        InitIn(a, its, 0, 0, ZeroObject, Concat(its), "bytes")

SpecAlloc == InitAlloc /\ [][Next]_vars

HasMsgPiece == \E i \in DOMAIN items : items[i] \in MsgPieces

\* valid fields and a string that is not UTF-8
IoPieces ==
    { <<8, 5>>,                               \* x = 5
      LD(26, Hello),                          \* z, 20 bytes
      LD(34, <<8, 2>>),                       \* child1 { x = 2 }
      <<56, 3>>,                              \* v += 3
      <<26, 3, 97, 255, 98>> }                \* z = a FF b

InitIo == InitFrom(IoPieces, MaxFed)

\* one turn of decode's loop in which the provider returns Err(e):
\* provider().map_err(Error::Io)? returns from decode
ProviderFails ==
    /\ phase \in {"decoded", "feeding"}
    /\ phase' = "io_error"
    /\ UNCHANGED <<aside, arena, items, nest, cut, src, enc, input, flat, out, pos,
                   d, h>>

\* decoding in chunks from a provider that may fail
NextIo ==
    \/ DecodeFlat
    \/ \E k \in ChunkSizes : Resume(k)
    \/ Finish
    \/ ProviderFails

SpecIo == InitIo /\ [][NextIo]_vars

\* the tag byte 0, and tags with field number 0 elsewhere
ZeroTag == <<0>>

ZeroElsewhere ==
    { LD(34, <<8, 2, 0>>),                    \* child1 { x = 2, then tag 0 }
      <<43, 0, 44>>,                          \* grp { tag 0 }
      <<1, 1, 2, 3, 4, 5, 6, 7, 8>>,          \* field 0 as fixed64
      <<2, 1, 97>>,                           \* field 0, length-delimited
      <<5, 1, 2, 3, 4>> }                     \* field 0 as fixed32

ZeroPieces == {ZeroTag} \cup ZeroElsewhere \cup {<<8, 5>>, LD(26, Hello)}

InitZero == InitFrom(ZeroPieces, MaxFed)

SpecZero == InitZero /\ [][Next]_vars

IsZero(piece) == piece \in {ZeroTag} \cup ZeroElsewhere

\* the first tag with field number 0 the decoder meets is the tag byte 0 at
\* top level / is any other one
ZeroAtTop ==
    /\ nest = 0
    /\ SelectSeq(items, IsZero) # <<>>
    /\ Head(SelectSeq(items, IsZero)) = ZeroTag

ZeroNotAtTop ==
    /\ SelectSeq(items, IsZero) # <<>>
    /\ nest > 0 \/ Head(SelectSeq(items, IsZero)) # ZeroTag

\* C15: messages whose encodings need one, two and three buffers of
\* encode_vec, and a tree the encoder's stack cannot hold
LongText == [i \in 1..1100 |-> 32 + (i % 90)]
VecSetters == Setters \cup {[op |-> "rs_push", val |-> LongText]}
FLAT_BUFFER == 100000

InitVec ==
    \E its \in SeqsUpTo(VecSetters, MaxItems), n \in {0, STACK_DEPTH + 1} :
        InitOn(its, n, 0, Wrap(n, apply_setters(ZeroObject, its)), <<>>,
               "message")

\* msg.encode_flat::<STACK_DEPTH>(&mut flat_buffer) of the comparison
EncodeLarge ==
    /\ phase = "message"
    /\ \E r \in {encode_flat(src, FLAT_BUFFER)} :
       enc' = [st |-> IF r.ok THEN "ok" ELSE r.err, bytes |-> r.bytes]
    /\ phase' = "flat"
    /\ UNCHANGED <<aside, arena, items, nest, cut, src, input, flat, out, pos, d, h>>

\* msg.encode_vec::<STACK_DEPTH>()
EncodeVec ==
    /\ phase = "flat"
    /\ \E r \in {encode_vec(src)} :
       out' = [st |-> IF r.ok THEN "ok" ELSE r.err, bytes |-> r.bytes]
    /\ phase' = "vec"
    /\ UNCHANGED <<aside, arena, items, nest, cut, src, enc, input, flat, pos, d, h>>

NextVec ==
    \/ EncodeLarge
    \/ EncodeVec

SpecVec == InitVec /\ [][NextVec]_vars


\* ------------------------------------------------------------------------
\* Tables from descriptors (descriptor_pool.rs, codegen/tables.rs)
\* ------------------------------------------------------------------------

\* core::alloc::Layout
Layout(size, align) == [size |-> size, align |-> align]
RoundUp(n, a) == ((n + a - 1) \div a) * a
extend(layout, next) ==
    [layout |-> Layout(RoundUp(layout.size, next.align) + next.size,
                       IF next.align > layout.align THEN next.align
                       ELSE layout.align),
     offset |-> RoundUp(layout.size, next.align)]
pad_to_align(layout) ==
    Layout(RoundUp(layout.size, layout.align), layout.align)
array(elem, n) == Layout(elem.size * n, elem.align)

\* the entries around a Table: an encode entry, the Table, a decode entry,
\* an aux entry
EncodeEntryLayout == Layout(8, 4)
TableLayout == Layout(16, 8)
DecodeEntryLayout == Layout(4, 4)
AuxEntryLayout == Layout(16, 8)

\* a field of a DescriptorProto; oneof_index is -1 when the field has none,
\* packed is "unset" when the field has no options or no packed option
Field(name, number, type, label, oneof_index, type_name) ==
    [name |-> name, number |-> number, type |-> type, label |-> label,
     oneof_index |-> oneof_index, type_name |-> type_name, packed |-> "unset"]

is_repeated(f) == f.label = "LABEL_REPEATED"
is_message(f) == f.type \in {"TYPE_MESSAGE", "TYPE_GROUP"}
is_in_oneof(f) == f.oneof_index >= 0
needs_has_bit(f) == ~is_repeated(f) /\ ~is_message(f) /\ ~is_in_oneof(f)

field_kind_tokens(f) ==
    IF is_repeated(f)
    THEN CASE f.type = "TYPE_INT32" -> "RepeatedInt32"
           [] f.type = "TYPE_INT64" -> "RepeatedVarint64"
           [] f.type = "TYPE_BOOL" -> "RepeatedBool"
           [] f.type = "TYPE_STRING" -> "RepeatedString"
           [] f.type = "TYPE_MESSAGE" -> "RepeatedMessage"
           [] f.type = "TYPE_GROUP" -> "RepeatedGroup"
    ELSE CASE f.type = "TYPE_INT32" -> "Int32"
           [] f.type = "TYPE_INT64" -> "Varint64"
           [] f.type = "TYPE_BOOL" -> "Bool"
           [] f.type = "TYPE_STRING" -> "String"
           [] f.type = "TYPE_MESSAGE" -> "Message"
           [] f.type = "TYPE_GROUP" -> "Group"

calculate_tag_with_syntax(f, syntax) ==
    LET is_packed == is_repeated(f)
                     /\ IF f.packed # "unset" THEN f.packed = "true"
                        ELSE syntax = "proto3"
        wire_type ==
            CASE f.type \in {"TYPE_INT32", "TYPE_INT64", "TYPE_BOOL"} ->
                   IF is_packed THEN 2 ELSE 0
              [] f.type \in {"TYPE_STRING", "TYPE_MESSAGE"} -> 2
              [] f.type = "TYPE_GROUP" -> 3
    IN f.number * 8 + wire_type

\* DescriptorPool::field_size, field_align
field_size(f) ==
    IF is_repeated(f) THEN 24
    ELSE CASE f.type = "TYPE_BOOL" -> 1
           [] f.type = "TYPE_INT32" -> 4
           [] f.type = "TYPE_INT64" -> 8
           [] f.type = "TYPE_STRING" -> 24
           [] is_message(f) -> 8

field_align(f) ==
    IF is_repeated(f) THEN 8
    ELSE CASE f.type = "TYPE_BOOL" -> 1
           [] f.type = "TYPE_INT32" -> 4
           [] OTHER -> 8

\* how many of the fields before the i-th satisfy P
Before(fields, i, P(_)) == Cardinality({j \in 1..(i - 1) : P(fields[j])})
Count(fields, P(_)) == Before(fields, Len(fields) + 1, P)

\* the words of presence bits at the head of an object
has_bits_words(descriptor) ==
    (Count(descriptor.field, needs_has_bit) + 31) \div 32

\* a layout extended by the fields lo..hi outside a oneof, in declaration
\* order, the range halved at each step
RECURSIVE LayoutOver(_, _, _, _)
LayoutOver(descriptor, layout, lo, hi) ==
    IF lo > hi THEN layout
    ELSE IF lo = hi
    THEN IF is_in_oneof(descriptor.field[lo]) THEN layout
         ELSE extend(layout, Layout(field_size(descriptor.field[lo]),
                                    field_align(descriptor.field[lo]))).layout
    ELSE Bind(LayoutOver(descriptor, layout, lo, (lo + hi) \div 2),
              LAMBDA half :
                  LayoutOver(descriptor, half, (lo + hi) \div 2 + 1, hi))

\* the layout after the first k fields: the metadata words, then each field
\* outside a oneof in declaration order
LayoutAfter(descriptor, k) ==
    LayoutOver(descriptor,
               Layout((has_bits_words(descriptor) + descriptor.oneof_decl) * 4,
                      4),
               1, k)

\* the union of a oneof: the largest size and alignment of its fields
oneof_sizes(descriptor, oneof_idx) ==
    LET arms == {j \in DOMAIN descriptor.field :
                     descriptor.field[j].oneof_index = oneof_idx} IN
    Layout(SetMax({field_size(descriptor.field[j]) : j \in arms}),
           SetMax({1} \cup {field_align(descriptor.field[j]) : j \in arms}))

\* the layout after the unions of the first k oneofs
RECURSIVE UnionsAfter(_, _)
UnionsAfter(descriptor, k) ==
    IF k = 0 THEN LayoutAfter(descriptor, Len(descriptor.field))
    ELSE Bind(UnionsAfter(descriptor, k - 1), LAMBDA layout :
         IF oneof_sizes(descriptor, k - 1).size > 0
         THEN extend(layout, oneof_sizes(descriptor, k - 1)).layout
         ELSE layout)

\* the offset of the i-th field in the object
field_offsets(descriptor, i) ==
    LET f == descriptor.field[i] IN
    IF is_in_oneof(f)
    THEN IF oneof_sizes(descriptor, f.oneof_index).size > 0
         THEN extend(UnionsAfter(descriptor, f.oneof_index),
                     oneof_sizes(descriptor, f.oneof_index)).offset
         ELSE 0
    ELSE extend(LayoutAfter(descriptor, i - 1),
                Layout(field_size(f), field_align(f))).offset

total_size(descriptor) ==
    pad_to_align(UnionsAfter(descriptor, descriptor.oneof_decl)).size

\* where the aux entry of the aux_index-th message field lies, from the Table
aux_entry_offset(num_fields, num_decode_entries, num_aux_entries, aux_index) ==
    LET table  == extend(array(EncodeEntryLayout, num_fields), TableLayout)
        decode == extend(table.layout,
                         array(DecodeEntryLayout, num_decode_entries))
        aux    == extend(decode.layout,
                         array(AuxEntryLayout, num_aux_entries))
    IN aux.offset + aux_index * AuxEntryLayout.size - table.offset

\* decoding::TableEntry::new and TableEntry(0)
TableEntry_new(kind, has_bit_idx, offset) ==
    [kind |-> kind, has_bit |-> has_bit_idx, offset |-> offset % 65536]
TableEntry_0 == [kind |-> "Unknown", has_bit |-> 0, offset |-> 0]

\* type_name.strip_prefix('.'): a name is the sequence of its parts, and a
\* leading dot shows as an empty first part
normalize_type_name(type_name) ==
    IF type_name # <<>> /\ Head(type_name) = "" THEN Tail(type_name)
    ELSE type_name

Null == <<>>

\* tables with one more entry
with_table(tables, name, table) ==
    [n \in DOMAIN tables \cup {name} |->
        IF n = name THEN table ELSE tables[n]]

\* the fields of a message that hold messages, in declaration order
message_fields(descriptor) ==
    SelectSeq([i \in DOMAIN descriptor.field |-> i],
              LAMBDA i : is_message(descriptor.field[i]))

\* the first field with a number
find_field(descriptor, field_number) ==
    LET at == {i \in DOMAIN descriptor.field :
                   descriptor.field[i].number = field_number} IN
    IF at = {} THEN 0 ELSE CHOOSE i \in at : \A j \in at : i <= j

\* DescriptorPool::build_table_from_descriptor; tables: the pool's tables
\* when the table is built
build_table_from_descriptor(tables, descriptor, syntax) ==
    LET fields == descriptor.field
        num_fields == Len(fields)
        max_field_number == SetMax({fields[i].number : i \in DOMAIN fields})
        num_decode_entries == max_field_number + 1
        num_aux_entries == Count(fields, is_message)
        aux_index_map(i) == Before(fields, i, is_message)
        has_bit_index_map(i) == Before(fields, i, needs_has_bit)
        discriminant(i) ==
            128 + has_bits_words(descriptor) + fields[i].oneof_index
        aux_offset(i) ==
            aux_entry_offset(num_fields, num_decode_entries, num_aux_entries,
                             aux_index_map(i))
        child(f) ==
            IF normalize_type_name(f.type_name) \in DOMAIN tables
            THEN normalize_type_name(f.type_name) ELSE Null
    IN [descriptor |-> descriptor,
        size |-> total_size(descriptor) % 65536,
        num_encode_entries |-> num_fields,
        num_decode_entries |-> num_decode_entries,
        encode_entries |->
            [i \in DOMAIN fields |->
                [has_bit |->
                     IF is_in_oneof(fields[i]) THEN discriminant(i) % 256
                     ELSE IF needs_has_bit(fields[i])
                     THEN has_bit_index_map(i) % 256 ELSE 0,
                 kind |-> field_kind_tokens(fields[i]),
                 offset |->
                     IF is_message(fields[i]) THEN aux_offset(i) % 65536
                     ELSE field_offsets(descriptor, i) % 65536,
                 encoded_tag |->
                     calculate_tag_with_syntax(fields[i], syntax)]],
        decode_entries |->
            [k \in 1..num_decode_entries |->
                Bind(find_field(descriptor, k - 1), LAMBDA i :
                IF i = 0 THEN TableEntry_0
                ELSE IF is_in_oneof(fields[i])
                THEN TableEntry_new(field_kind_tokens(fields[i]),
                                    discriminant(i),
                                    IF is_message(fields[i])
                                    THEN aux_offset(i)
                                    ELSE field_offsets(descriptor, i))
                ELSE IF is_message(fields[i])
                THEN TableEntry_new(field_kind_tokens(fields[i]), 0,
                                    aux_offset(i))
                ELSE TableEntry_new(field_kind_tokens(fields[i]),
                                    IF needs_has_bit(fields[i])
                                    THEN has_bit_index_map(i) ELSE 0,
                                    field_offsets(descriptor, i)))],
        aux_entries |->
            [a \in DOMAIN message_fields(descriptor) |->
                [at |-> aux_offset(message_fields(descriptor)[a]),
                 offset |->
                     field_offsets(descriptor, message_fields(descriptor)[a]),
                 child_table |->
                     child(fields[message_fields(descriptor)[a]])]]]

RECURSIVE add_message(_, _, _, _)
RECURSIVE add_nested(_, _, _, _, _)
\* DescriptorPool::add_message: the table of the message, then those of its
\* nested types
add_message(tables, message, full_name, syntax) ==
    add_nested(with_table(tables, full_name,
                          build_table_from_descriptor(tables, message, syntax)),
               message.nested_type, 1, full_name, syntax)

add_nested(tables, nested_type, k, full_name, syntax) ==
    IF k > Len(nested_type) THEN tables
    ELSE add_nested(add_message(tables, nested_type[k],
                                Append(full_name, nested_type[k].name),
                                syntax),
                    nested_type, k + 1, full_name, syntax)

RECURSIVE patch_message_aux_entries(_, _)
RECURSIVE patch_nested(_, _, _, _)
\* DescriptorPool::patch_message_aux_entries
patch_message_aux_entries(tables, full_name) ==
    IF full_name \notin DOMAIN tables THEN tables
    ELSE LET table == tables[full_name]
             descriptor == table.descriptor
             patched(a) ==
                 LET f == descriptor.field[message_fields(descriptor)[a]] IN
                 IF normalize_type_name(f.type_name) \in DOMAIN tables
                 THEN normalize_type_name(f.type_name)
                 ELSE table.aux_entries[a].child_table
         IN IF Count(descriptor.field, is_message) = 0 THEN tables
            ELSE patch_nested(
                     [tables EXCEPT ![full_name].aux_entries =
                         [a \in DOMAIN @ |->
                             [@[a] EXCEPT !.child_table = patched(a)]]],
                     descriptor.nested_type, 1, full_name)

patch_nested(tables, nested_type, k, full_name) ==
    IF k > Len(nested_type) THEN tables
    ELSE patch_nested(
             patch_message_aux_entries(
                 tables, Append(full_name, nested_type[k].name)),
             nested_type, k + 1, full_name)

\* the name a file gives its message
full_name_in(file, message) ==
    IF file.package = <<>> THEN <<message.name>>
    ELSE Append(file.package, message.name)

RECURSIVE first_pass(_, _, _)
first_pass(tables, file, k) ==
    IF k > Len(file.message_type) THEN tables
    ELSE first_pass(add_message(tables, file.message_type[k],
                                full_name_in(file, file.message_type[k]),
                                file.syntax),
                    file, k + 1)

RECURSIVE second_pass(_, _, _)
second_pass(tables, file, k) ==
    IF k > Len(file.message_type) THEN tables
    ELSE second_pass(patch_message_aux_entries(
                         tables, full_name_in(file, file.message_type[k])),
                     file, k + 1)

\* DescriptorPool::add_file
add_file(tables, file) == second_pass(first_pass(tables, file, 1), file, 1)

\* what the generator hands to generate_table: the presence bit of each
\* field that has one, by declaration order, and the metadata word of each
\* oneof's discriminant
has_bit_map(message, i) == Before(message.field, i, needs_has_bit)
oneof_info(message, i) ==
    has_bits_words(message) + message.field[i].oneof_index

\* core::mem::offset_of!(ProtoType, field) and size_of::<ProtoType>(): the
\* generated struct is laid out as the pool lays the object out
offset_of_ProtoType(message, i) == field_offsets(message, i)
size_of_ProtoType(message) == total_size(message)

\* codegen::tables::generate_table: the static TABLE of a message
generate_table(message, syntax) ==
    LET fields == message.field
        num_encode_entries == Len(fields)
        max_field_number == SetMax({fields[i].number : i \in DOMAIN fields})
        num_decode_entries == max_field_number + 1
        num_aux_entries == Len(message_fields(message))
        aux_index_map(i) == Before(fields, i, is_message)
        aux_offset(i) ==
            aux_entry_offset(num_encode_entries, num_decode_entries,
                             num_aux_entries, aux_index_map(i))
        has_bit(i) == IF needs_has_bit(fields[i]) THEN has_bit_map(message, i)
                      ELSE 0
    IN [descriptor |-> message,
        size |-> size_of_ProtoType(message) % 65536,
        num_encode_entries |-> num_encode_entries,
        num_decode_entries |-> num_decode_entries,
        encode_entries |->
            [i \in DOMAIN fields |->
                [has_bit |->
                     IF is_in_oneof(fields[i])
                     THEN (128 + oneof_info(message, i)) % 256
                     ELSE has_bit(i) % 256,
                 kind |-> field_kind_tokens(fields[i]),
                 offset |->
                     IF is_message(fields[i]) THEN aux_offset(i) % 65536
                     ELSE offset_of_ProtoType(message, i) % 65536,
                 encoded_tag |->
                     calculate_tag_with_syntax(fields[i], syntax)]],
        decode_entries |->
            [k \in 1..num_decode_entries |->
                Bind(find_field(message, k - 1), LAMBDA i :
                IF i = 0 THEN TableEntry_0
                ELSE IF is_in_oneof(fields[i])
                THEN TableEntry_new(field_kind_tokens(fields[i]),
                                    128 + oneof_info(message, i),
                                    IF is_message(fields[i])
                                    THEN aux_offset(i)
                                    ELSE offset_of_ProtoType(message, i))
                ELSE IF is_message(fields[i])
                THEN TableEntry_new(field_kind_tokens(fields[i]), 0,
                                    aux_offset(i))
                ELSE TableEntry_new(field_kind_tokens(fields[i]), has_bit(i),
                                    offset_of_ProtoType(message, i)))],
        aux_entries |->
            [a \in DOMAIN message_fields(message) |->
                [at |-> aux_offset(message_fields(message)[a]),
                 offset |->
                     offset_of_ProtoType(message, message_fields(message)[a]),
                 child_table |->
                     normalize_type_name(
                         fields[message_fields(message)[a]].type_name)]]]

\* the messages of a file with their names, nested types included
RECURSIVE messages_under(_, _)
messages_under(message, full_name) ==
    {[name |-> full_name, message |-> message]}
    \cup UNION {messages_under(message.nested_type[k],
                               Append(full_name, message.nested_type[k].name)) :
                k \in DOMAIN message.nested_type}

messages_in(file) ==
    UNION {messages_under(file.message_type[k],
                          full_name_in(file, file.message_type[k])) :
           k \in DOMAIN file.message_type}

\* the generated TABLE statics of a file, by type name
static_tables(file) ==
    [name \in {m.name : m \in messages_in(file)} |->
        generate_table((CHOOSE m \in messages_in(file) : m.name = name).message,
                       file.syntax)]

\* Table::aux_entry: the aux entry at an offset from the table
aux_entry(table, offset) ==
    table.aux_entries[
        CHOOSE a \in DOMAIN table.aux_entries :
            table.aux_entries[a].at = offset]

\* what compare_tables_rec asserts of one pair of tables
same_entries(static_table, dynamic_table) ==
    /\ dynamic_table.size = static_table.size
    /\ dynamic_table.num_encode_entries = static_table.num_encode_entries
    /\ dynamic_table.num_decode_entries = static_table.num_decode_entries
    /\ dynamic_table.encode_entries = static_table.encode_entries
    /\ dynamic_table.decode_entries = static_table.decode_entries
    /\ \A i \in DOMAIN dynamic_table.encode_entries :
          dynamic_table.encode_entries[i].kind
              \in {"Message", "RepeatedMessage"} =>
          aux_entry(dynamic_table,
                    dynamic_table.encode_entries[i].offset).offset
          = aux_entry(static_table,
                      dynamic_table.encode_entries[i].offset).offset

\* the pairs of child tables compare_tables_rec goes on to
aux_pairs(static_table, dynamic_table) ==
    LET linked == SelectSeq(
            [i \in DOMAIN dynamic_table.encode_entries |->
                dynamic_table.encode_entries[i]],
            LAMBDA e : e.kind \in {"Message", "RepeatedMessage"})
    IN [a \in DOMAIN linked |->
           [static |-> aux_entry(static_table, linked[a].offset).child_table,
            dynamic |-> aux_entry(dynamic_table, linked[a].offset).child_table]]

\* compare_tables_rec over the pairs still to visit: "equal" when every
\* assertion holds, "differs" when one fails, "null" when a child table to
\* visit is the null pointer
RECURSIVE compare_tables_rec(_, _, _, _)
compare_tables_rec(statics, tables, pairs, seen) ==
    IF pairs = <<>> THEN "equal"
    ELSE Bind(Head(pairs), LAMBDA p :
         IF p.dynamic = Null THEN "null"
         ELSE IF p.dynamic \in seen
         THEN compare_tables_rec(statics, tables, Tail(pairs), seen)
         ELSE IF ~same_entries(statics[p.static], tables[p.dynamic])
         THEN "differs"
         ELSE compare_tables_rec(
                  statics, tables,
                  aux_pairs(statics[p.static], tables[p.dynamic])
                      \o Tail(pairs),
                  seen \cup {p.dynamic}))


\* C16: the messages files are put together from
TypePlain ==
    [name |-> "Plain", oneof_decl |-> 0, nested_type |-> <<>>,
     field |-> << Field("a", 1, "TYPE_INT32", "LABEL_OPTIONAL", -1, <<>>),
                  Field("b", 2, "TYPE_BOOL", "LABEL_OPTIONAL", -1, <<>>),
                  Field("r", 4, "TYPE_INT64", "LABEL_REPEATED", -1, <<>>) >>]
TypeHolder ==
    [name |-> "Holder", oneof_decl |-> 1, nested_type |-> <<>>,
     field |-> << Field("p", 1, "TYPE_MESSAGE", "LABEL_OPTIONAL", -1,
                        <<"", "pkg", "Plain">>),
                  Field("s", 2, "TYPE_STRING", "LABEL_OPTIONAL", 0, <<>>),
                  Field("i", 3, "TYPE_INT32", "LABEL_OPTIONAL", 0, <<>>) >>]
TypeNode ==
    [name |-> "Node", oneof_decl |-> 0, nested_type |-> <<>>,
     field |-> << Field("next", 1, "TYPE_MESSAGE", "LABEL_OPTIONAL", -1,
                        <<"", "pkg", "Outer", "Node">>),
                  Field("names", 3, "TYPE_STRING", "LABEL_REPEATED", -1,
                        <<>>) >>]
TypeOuter ==
    [name |-> "Outer", oneof_decl |-> 0, nested_type |-> <<TypeNode>>,
     field |-> << Field("x", 1, "TYPE_INT32", "LABEL_OPTIONAL", -1, <<>>) >>]
TypeTree ==
    [name |-> "Tree", oneof_decl |-> 0, nested_type |-> <<>>,
     field |-> << Field("left", 1, "TYPE_MESSAGE", "LABEL_OPTIONAL", -1,
                        <<"", "pkg", "Tree">>),
                  Field("kids", 2, "TYPE_MESSAGE", "LABEL_REPEATED", -1,
                        <<"", "pkg", "Tree">>),
                  Field("w", 3, "TYPE_INT64", "LABEL_OPTIONAL", -1, <<>>) >>]
TypeInner ==
    [name |-> "Inner", oneof_decl |-> 0, nested_type |-> <<>>,
     field |-> << Field("v", 1, "TYPE_INT32", "LABEL_OPTIONAL", -1, <<>>) >>]
TypeShell ==
    [name |-> "Shell", oneof_decl |-> 0, nested_type |-> <<TypeInner>>,
     field |-> << Field("inner", 1, "TYPE_MESSAGE", "LABEL_OPTIONAL", -1,
                        <<"", "pkg", "Shell", "Inner">>) >>]
Types == {TypePlain, TypeHolder, TypeOuter, TypeTree, TypeShell}

\* a file declares each message once and every type its fields name
WellFormed(file) ==
    /\ \A j, k \in DOMAIN file.message_type :
          file.message_type[j] = file.message_type[k] => j = k
    /\ \A m \in messages_in(file) : \A i \in DOMAIN m.message.field :
          is_message(m.message.field[i]) =>
          normalize_type_name(m.message.field[i].type_name)
              \in {n.name : n \in messages_in(file)}

Files ==
    {file \in [package : {<<"pkg">>}, syntax : {"proto2", "proto3"},
               message_type : SeqsUpTo(Types, MaxItems)] : WellFormed(file)}

InitTables ==
    \E file \in Files : InitOn(file, 0, 0, ZeroObject, <<>>, "file")

\* pool.add_file(file)
AddFile ==
    /\ phase = "file"
    /\ pool' = add_file(pool, items)
    /\ phase' = "pool"
    /\ UNCHANGED <<same, blocks, sys, ret, arena, items, nest, cut, src, enc,
                   input, flat, out, pos, d, h>>

\* compare_tables_rec(T::table(), pool.get_table(name), &mut seen)
CompareTables ==
    /\ phase = "pool"
    /\ \E name \in DOMAIN pool :
          same' = [name |-> name,
                   verdict |->
                       compare_tables_rec(
                           static_tables(items), pool,
                           <<[static |-> name, dynamic |-> name]>>, {})]
    /\ phase' = "compared"
    /\ UNCHANGED <<pool, blocks, sys, ret, arena, items, nest, cut, src, enc,
                   input, flat, out, pos, d, h>>

NextTables ==
    \/ AddFile
    \/ CompareTables

SpecTables == InitTables /\ [][NextTables]_vars


\* ------------------------------------------------------------------------
\* The arena (arena.rs)
\* ------------------------------------------------------------------------

\* addresses are numbers, 0 the null pointer; an arena is its four fields,
\* with allocator TRUE for Some(allocator)
MemBlockLayout == Layout(24, 8)
DEFAULT_BLOCK_SIZE == 8192
MAX_BLOCK_SIZE == 1048576
SIGNIFICANT_SPACE_THRESHOLD == 512

\* Arena::new
Arena_new == [current |-> 0, cursor |-> 0, end |-> 0, allocator |-> TRUE]

\* Arena::from_slice over the len bytes at data
Arena_from_slice(data, len) ==
    [current |-> data, cursor |-> data + MemBlockLayout.size,
     end |-> data + len, allocator |-> FALSE]

\* Allocator::allocate: the allocator refuses, or hands out the next free
\* bytes that have the layout's alignment
allocate(s, layout, grant) ==
    IF ~grant THEN [ok |-> FALSE, ptr |-> 0, sys |-> s]
    ELSE Bind(RoundUp(s.brk, layout.align), LAMBDA ptr :
         [ok |-> TRUE, ptr |-> ptr,
          sys |-> [s EXCEPT !.brk = ptr + layout.size,
                            !.live = @ \cup {[ptr |-> ptr,
                                              layout |-> layout]}]])

\* an allocation's outcome: w is the arena, its block headers and the
\* allocator afterwards
Allocated(w, ptr) == [some |-> TRUE, ptr |-> ptr, w |-> w]
NotAllocated(w) == [some |-> FALSE, ptr |-> 0, w |-> w]

\* Arena::allocate_new_block
allocate_new_block(w, alloc_layout, grant) ==
    IF ~w.arena.allocator THEN NotAllocated(w)
    ELSE LET first == extend(MemBlockLayout, alloc_layout)
             new_block_size ==
                 IF w.arena.current = 0 THEN DEFAULT_BLOCK_SIZE
                 ELSE Min(w.blocks[w.arena.current].layout.size * 2,
                          MAX_BLOCK_SIZE)
             second == extend(pad_to_align(first.layout),
                              array(Layout(1, 1), new_block_size))
             layout == pad_to_align(second.layout)
         IN Bind(allocate(w.sys, layout, grant), LAMBDA r :
            IF ~r.ok THEN NotAllocated(w)
            ELSE Allocated(
                     [arena |-> [w.arena EXCEPT
                                     !.current = r.ptr,
                                     !.cursor = r.ptr + second.offset,
                                     !.end = r.ptr + layout.size],
                      blocks |-> with_table(w.blocks, r.ptr,
                                            [prev |-> w.arena.current,
                                             layout |-> layout]),
                      sys |-> r.sys],
                     r.ptr + first.offset))

\* alloc_dedicated putting the block behind current without handing it the
\* blocks that were there
alloc_dedicated_unlinked(w, layout, grant) ==
    IF ~w.arena.allocator THEN NotAllocated(w)
    ELSE LET extended == extend(MemBlockLayout, layout)
             final_layout == pad_to_align(extended.layout)
         IN Bind(allocate(w.sys, final_layout, grant), LAMBDA r :
            IF ~r.ok THEN NotAllocated(w)
            ELSE Allocated(
                     [arena |-> w.arena,
                      blocks |->
                          with_table(
                              [w.blocks EXCEPT ![w.arena.current].prev = r.ptr],
                              r.ptr,
                              [prev |-> 0, layout |-> final_layout]),
                      sys |-> r.sys],
                     r.ptr + extended.offset))


\* Arena::alloc_dedicated
alloc_dedicated(w, layout, grant) ==
    IF ~w.arena.allocator THEN NotAllocated(w)
    ELSE LET extended == extend(MemBlockLayout, layout)
             final_layout == pad_to_align(extended.layout)
         IN Bind(allocate(w.sys, final_layout, grant), LAMBDA r :
            IF ~r.ok THEN NotAllocated(w)
            ELSE IF w.arena.current # 0
            THEN Allocated(
                     [arena |-> w.arena,
                      blocks |->
                          with_table(
                              [w.blocks EXCEPT ![w.arena.current].prev = r.ptr],
                              r.ptr,
                              [prev |-> w.blocks[w.arena.current].prev,
                               layout |-> final_layout]),
                      sys |-> r.sys],
                     r.ptr + extended.offset)
            ELSE Allocated(
                     [arena |-> [w.arena EXCEPT !.current = r.ptr],
                      blocks |-> with_table(w.blocks, r.ptr,
                                            [prev |-> 0,
                                             layout |-> final_layout]),
                      sys |-> r.sys],
                     r.ptr + extended.offset))

\* `available as usize >= threshold` for an isize available: a negative
\* isize becomes a usize of at least 2^63
as_usize_ge(available, threshold) == available < 0 \/ available >= threshold

\* Arena::alloc_outlined
alloc_outlined(w, layout, available, grant) ==
    IF as_usize_ge(available, SIGNIFICANT_SPACE_THRESHOLD)
    THEN alloc_dedicated(w, layout, grant)
    ELSE allocate_new_block(w, layout, grant)

\* alloc_raw moving the cursor to the aligned address before it looks at the
\* space left
alloc_raw_aligned_first(w, layout, grant) ==
    LET aligned_addr == RoundUp(w.arena.cursor, layout.align)
        available == w.arena.end - aligned_addr
        moved == [w EXCEPT !.arena.cursor = aligned_addr]
    IN IF available >= layout.size
       THEN [ok |-> TRUE, ptr |-> aligned_addr, err |-> "",
             ub |-> aligned_addr = 0,
             w |-> [w EXCEPT !.arena.cursor = aligned_addr + layout.size]]
       ELSE Bind(alloc_outlined(moved, layout, available, grant), LAMBDA r :
            IF r.some
            THEN [ok |-> TRUE, ptr |-> r.ptr, err |-> "", ub |-> FALSE,
                  w |-> r.w]
            ELSE [ok |-> FALSE, ptr |-> 0, err |-> "ArenaAllocationFailed",
                  ub |-> FALSE, w |-> r.w])


\* Arena::alloc_raw; ub: NonNull::new_unchecked was handed the null pointer
alloc_raw(w, layout, grant) ==
    LET aligned_addr == RoundUp(w.arena.cursor, layout.align)
        available == w.arena.end - aligned_addr
    IN IF available >= layout.size
       THEN [ok |-> TRUE, ptr |-> aligned_addr, err |-> "",
             ub |-> aligned_addr = 0,
             w |-> [w EXCEPT !.arena.cursor = aligned_addr + layout.size]]
       ELSE Bind(alloc_outlined(w, layout, available, grant), LAMBDA r :
            IF r.some
            THEN [ok |-> TRUE, ptr |-> r.ptr, err |-> "", ub |-> FALSE,
                  w |-> r.w]
            ELSE [ok |-> FALSE, ptr |-> 0, err |-> "ArenaAllocationFailed",
                  ub |-> FALSE, w |-> r.w])

\* Drop for Arena: the deallocate calls, block by block from current
RECURSIVE drop_from(_, _, _)
drop_from(current, headers, freed) ==
    IF current = 0 THEN freed
    ELSE drop_from(headers[current].prev, headers,
                   Append(freed, [ptr |-> current,
                                  layout |-> headers[current].layout]))

drop(w) ==
    IF ~w.arena.allocator THEN w
    ELSE [w EXCEPT !.sys.freed = drop_from(w.arena.current, w.blocks, @)]


\* C17..C20: the layouts asked of an arena: empty, small, one that fills a
\* fresh block to its last byte, one aligned beyond the block's end, one
\* larger than a block
MaxCalls == 3
Requests ==
    { Layout(0, 1), Layout(8, 8), Layout(16, 8), Layout(16, 16),
      Layout(DEFAULT_BLOCK_SIZE, 1), Layout(DEFAULT_BLOCK_SIZE + 808, 8) }

\* arenas over an allocator, over a buffer that holds the header and 40
\* bytes, and over one that holds the header only
InitArena ==
    \E a \in { Arena_new,
               Arena_from_slice(4096, MemBlockLayout.size + 40),
               Arena_from_slice(4100, MemBlockLayout.size) } :
        InitIn(a, <<>>, 0, 0, ZeroObject, <<>>, "arena")

codec == <<items, nest, cut, src, enc, input, flat, out, pos, d, h>>
World == [arena |-> arena, blocks |-> blocks, sys |-> sys]

\* arena.alloc_raw(layout), the allocator granting or refusing what the
\* arena asks of it
AllocRaw(layout, grant) ==
    /\ phase = "arena"
    /\ ret.calls < MaxCalls
    /\ \E r \in {alloc_raw(World, layout, grant)} :
       \E outcome \in Outcomes(r.ub) :
          /\ arena' = r.w.arena
          /\ blocks' = r.w.blocks
          /\ sys' = r.w.sys
          /\ ret' = [calls |-> ret.calls + 1,
                     failed |-> ret.failed + (IF r.ok THEN 0 ELSE 1),
                     layout |-> layout, ok |-> r.ok, ptr |-> r.ptr,
                     err |-> r.err]
          /\ phase' = IF outcome = "aborts" THEN "abort" ELSE "arena"
    /\ UNCHANGED <<pool, same, codec>>

\* the arena goes out of scope
Drop ==
    /\ phase = "arena"
    /\ sys' = drop(World).sys
    /\ phase' = "dropped"
    /\ UNCHANGED <<pool, same, codec, arena, blocks, ret>>

NextArena ==
    \/ \E layout \in Requests, grant \in BOOLEAN : AllocRaw(layout, grant)
    \/ Drop

SpecArena == InitArena /\ [][NextArena]_vars


\* C21: files of one message each, added one after the other
OneMessageFiles ==
    {[package |-> <<"pkg">>, syntax |-> "proto2", message_type |-> <<type>>] :
         type \in Types}

\* sequences without repetition
Distinct(seq) == \A j, k \in DOMAIN seq : seq[j] = seq[k] => j = k

InitPool ==
    \E files \in SeqsUpTo(OneMessageFiles, MaxItems) :
        /\ Distinct(files)
        /\ InitOn(files, 0, 0, ZeroObject, <<>>, "files")

\* pool.add_file(file) for the next file
AddNextFile ==
    /\ phase = "files"
    /\ items # <<>>
    /\ pool' = add_file(pool, Head(items))
    /\ items' = Tail(items)
    /\ UNCHANGED <<same, blocks, sys, ret, arena, nest, cut, src, enc, input,
                   flat, out, pos, d, h, phase>>

NextPool == AddNextFile

SpecPool == InitPool /\ [][NextPool]_vars

\* the type a message field of a table names
ChildType(table, a) ==
    normalize_type_name(
        table.descriptor.field[message_fields(table.descriptor)[a]].type_name)

\* every type a table of the pool refers to has its own table in the pool
AllTypesAdded ==
    \A name \in DOMAIN pool : \A a \in DOMAIN pool[name].aux_entries :
        ChildType(pool[name], a) \in DOMAIN pool


\* C22: messages of n presence-tracked fields of one type, with or without a
\* oneof and a repeated field after them; n reaches past the indices below
\* the oneof bit
\* has_bit_idx & 0x80: the entry is an arm of a oneof
ONEOF_FLAG == 128

TrackedCounts == {0, 1, ONEOF_FLAG - 1, ONEOF_FLAG, ONEOF_FLAG + 1}

TypeTracked(n, type, arms) ==
    [name |-> "Tracked", oneof_decl |-> IF arms THEN 1 ELSE 0,
     nested_type |-> <<>>,
     field |->
         [i \in 1..n |-> Field("f", i, type, "LABEL_OPTIONAL", -1, <<>>)]
         \o (IF arms
             THEN << Field("s", n + 1, "TYPE_STRING", "LABEL_OPTIONAL", 0,
                           <<>>),
                     Field("r", n + 2, "TYPE_INT32", "LABEL_REPEATED", -1,
                           <<>>) >>
             ELSE <<>>)]

InitBits ==
    \E n \in TrackedCounts, arms \in BOOLEAN,
       type \in {"TYPE_BOOL", "TYPE_INT32", "TYPE_INT64", "TYPE_STRING"},
       syntax \in {"proto2", "proto3"} :
        InitOn([package |-> <<"pkg">>, syntax |-> syntax,
                message_type |-> <<TypeTracked(n, type, arms)>>],
               0, 0, ZeroObject, <<>>, "file")

NextBits == AddFile

SpecBits == InitBits /\ [][NextBits]_vars

\* the presence indices of a table's fields that need a has-bit are distinct
\* and below the oneof bit, and only oneof fields carry the oneof bit
PresenceIndicesOf(table) ==
    LET fields == table.descriptor.field
        has_bit(i) == table.encode_entries[i].has_bit
    IN /\ \A i \in DOMAIN fields :
             /\ has_bit(i) >= ONEOF_FLAG => is_in_oneof(fields[i])
             /\ needs_has_bit(fields[i]) => has_bit(i) \in 0..(ONEOF_FLAG - 1)
       /\ \A i, j \in DOMAIN fields :
             (needs_has_bit(fields[i]) /\ needs_has_bit(fields[j])
              /\ has_bit(i) = has_bit(j)) => i = j
       /\ \A i \in DOMAIN fields :
             table.decode_entries[fields[i].number + 1].has_bit
                 = has_bit(i)
             \/ is_message(fields[i])


\* C23: regions whose last item runs past their declared end, among fields
\* that are consumed exactly
Overshooting ==
    { <<58, 2, 1, 136, 1>>,                   \* packed v: varint 1 byte over
      <<98, 5, 1, 0, 0, 0, 2, 0, 0, 0>>,      \* packed rf: fixed32 3 bytes over
      <<34, 2, 8, 136, 1>>,                   \* child1: varint 1 byte over
      <<34, 3, 17, 1, 0, 0, 0, 0, 0, 0, 0>> } \* child1: fixed64 6 bytes over

RegionPieces ==
    Overshooting
    \cup { <<58, 3, 1, 136, 1>>,              \* packed v = [1, 136]
           LD(26, Hello),                     \* z, 20 bytes
           <<8, 5>> }                         \* x = 5

InitRegion == InitFrom(RegionPieces, MaxFed)

SpecRegion == InitRegion /\ [][Next]_vars


\* C24: sub-messages holding a length-delimited value whose declared length
\* reaches beyond the sub-message's end, by less and by more than the
\* lookahead margin, one and two levels deep
BeyondEnd ==
    { <<34, 3, 26, 5, 97>> \o <<98, 99, 100, 101>>,    \* z, 4 bytes beyond
      <<34, 4, 26, 20, 72, 101>>
          \o SubSeq(Hello, 3, Len(Hello)),             \* z, 18 bytes beyond
      <<34, 3, 58, 3, 1>> \o <<2, 3>>,                 \* packed v, 2 beyond
      <<34, 3, 34, 2, 8>> \o <<1>>,                    \* child1, 1 beyond
      <<34, 4, 34, 5, 8, 1>>,                          \* child1, 3 beyond
      <<34, 4, 162, 1, 3, 97>> \o <<97, 97>> }         \* unknown 20, 2 beyond

Reaching == BeyondEnd \cup {LD(34, p) : p \in BeyondEnd}

ReachPieces ==
    Reaching
    \cup { LD(34, LD(26, <<104, 105>>)),      \* child1 { z = "hi" }
           LD(26, Hello),                     \* z, 20 bytes
           <<8, 5>> }                         \* x = 5

InitReach == InitFrom(ReachPieces, MaxFed)

SpecReach == InitReach /\ [][Next]_vars


\* C25: group delimiters that do not nest, among groups that do; field 5 is
\* the group grp, fields 20 and 21 are unknown
Misnested ==
    { <<172, 1>>,                             \* end 21, no group 21 open
      <<43, 8, 3, 52>>,                       \* grp closed by end 6
      <<43, 8, 3, 164, 1>>,                   \* grp closed by end 20
      <<163, 1, 8, 1, 44>>,                   \* group 20 closed by end 5
      <<163, 1, 171, 1, 164, 1, 172, 1>>,     \* groups 20 and 21 crossed
      <<43, 8, 3>>,                           \* grp left open
      <<163, 1, 8, 1>>,                       \* group 20 left open
      LD(34, <<44>>),                         \* end 5 inside child1
      LD(34, <<43, 8, 3>>),                   \* grp open at child1's end
      LD(34, <<163, 1, 8, 1>>),               \* group 20 open at child1's end
      <<43>> \o LD(34, <<8, 1, 44>>) }        \* grp closed inside its child1

GroupPieces ==
    Misnested
    \cup { <<43, 8, 3, 44>>,                  \* grp { x = 3 }
           <<43, 43, 8, 1, 44, 44>>,          \* grp { grp { x = 1 } }
           <<163, 1, 8, 1, 164, 1>>,          \* group 20 { 1: 1 }
           <<163, 1, 171, 1, 172, 1, 164, 1>>,\* group 20 { group 21 { } }
           LD(26, Hello) }                    \* z, 20 bytes

InitGroups == InitFrom(GroupPieces, MaxFed)

SpecGroups == InitGroups /\ [][Next]_vars


\* C26: fields with the longest tags and values, payloads that end at and
\* beyond the lookahead margin, and a varint that never ends
SlopPieces ==
    { <<8>> \o Rep(255, 9) \o <<1>>,          \* x, a 10-byte varint
      <<128, 128, 128, 128, 1>>
          \o Rep(255, 9) \o <<1>>,            \* unknown, 5-byte tag, 10-byte varint
      <<17, 2, 0, 0, 0, 0, 0, 0, 0>>,         \* y = 2, fixed64
      LD(26, Rep(97, SLOP_SIZE)),             \* z, 16 bytes
      LD(26, Hello),                          \* z, 20 bytes
      <<162, 1, 40>> \o Rep(97, 40),          \* unknown 20, 40 bytes
      <<58, 3, 1, 136, 1>>,                   \* packed v = [1, 136]
      <<8>> \o Rep(255, 10) \o <<1>> }        \* x, a varint of 11 bytes

InitSlop == InitFrom(SlopPieces, MaxFed)

SpecSlop == InitSlop /\ [][Next]_vars

\* the first go_decode of resume over the next k bytes: over the whole
\* chunk behind the kept bytes, or over the patch buffer
FirstPass(k) ==
    go_decode(d.state,
              CopyInto(d.patch_buffer, SLOP_SIZE,
                       SubSeq(input, pos + 1, pos + Min(k, SLOP_SIZE))),
              Min(k, SLOP_SIZE), h)


\* C27: strings longer than the lookahead margin, so that they are taken in
\* several slices: of 2-, 3- and 4-byte characters at even and odd offsets,
\* and with a character broken off or a stray byte in them
Repeat(char, n) == Concat([i \in 1..n |-> char])

LongValid ==
    { LD(26, Repeat(<<195, 169>>, 10)),               \* 10 x U+00E9
      LD(26, <<97>> \o Repeat(<<195, 169>>, 10)),     \* a, 10 x U+00E9
      LD(26, Repeat(<<226, 130, 172>>, 7)),           \* 7 x U+20AC
      LD(26, <<97, 98>>
             \o Repeat(<<240, 159, 152, 128>>, 5)) }  \* ab, 5 x U+1F600

LongInvalid ==
    { LD(26, Repeat(<<195, 169>>, 9) \o <<195, 97>>), \* C3 without its tail
      LD(26, Repeat(<<226, 130, 172>>, 6)
             \o <<226, 130>>),                        \* U+20AC broken off
      LD(26, Repeat(<<240, 159, 152, 128>>, 4)
             \o <<240, 159, 152, 40>>) }              \* U+1F600 cut by "("

LongPieces == LongValid \cup LongInvalid \cup { <<8, 5>> }

InitLong == InitFrom(LongPieces, MaxFed)

SpecLong == InitLong /\ [][Next]_vars

HasLongInvalid == \E i \in DOMAIN items : items[i] \in LongInvalid


\* C29: a caller that holds the ResumeableDecode itself and goes on calling
\* it after resume has returned false.  phase is "failed" while the last
\* call returned false, "revived" after a call that returned true behind a
\* false one.
StickyPieces ==
    { <<8, 5>>,                               \* x = 5
      LD(26, Hello),                          \* z, 20 bytes
      LD(34, <<8, 2>>),                       \* child1 { x = 2 }
      <<15>>,                                 \* field 1 with wire type 7
      <<172, 1>>,                             \* end 21, no group 21 open
      <<0>> }                                 \* the 0 tag

InitSticky ==
    \E its \in SeqsUpTo(StickyPieces, MaxFed) :
        InitOn(its, 0, 0, ZeroObject, Concat(its), "feeding")

\* decoder.resume(chunk) on the next k bytes, whatever the calls before it
\* returned
ResumeHeld(k) ==
    /\ phase \in {"feeding", "failed", "revived"}
    /\ pos + k <= Len(input)
    /\ \E r \in {resume_impl(d, SubSeq(input, pos + 1, pos + k), h)} :
       \E outcome \in Outcomes(r.h.ub /\ ~h.ub) :
          /\ d' = r.d
          /\ h' = r.h
          /\ pos' = pos + k
          /\ phase' = IF outcome = "aborts" THEN "abort"
                      ELSE IF r.h.panic THEN "panic"
                      ELSE IF ~r.ok THEN "failed"
                      ELSE IF phase = "feeding" THEN "feeding"
                      ELSE "revived"
    /\ UNCHANGED <<aside, arena, items, nest, cut, src, enc, input, flat, out>>

\* decoder.finish(), whatever the calls before it returned
FinishHeld ==
    /\ phase \in {"feeding", "failed", "revived"}
    /\ \E f \in {finish(d, h)} :
       /\ d' = [d EXCEPT !.state = f.state]
       /\ h' = f.h
       /\ \E outcome \in Outcomes(f.h.ub /\ ~h.ub) :
             phase' = IF outcome = "aborts" THEN "abort"
                      ELSE IF f.h.panic THEN "panic"
                      ELSE IF ~f.ok THEN "unfinished"
                      ELSE IF phase = "feeding" THEN "done"
                      ELSE "done after failure"
    /\ UNCHANGED <<aside, arena, items, nest, cut, src, enc, input, flat, out,
                   pos>>

NextSticky ==
    \/ \E k \in ChunkSizes : ResumeHeld(k)
    \/ FinishHeld

SpecSticky == InitSticky /\ [][NextSticky]_vars


\* the streaming decode has returned: true after finish, or false
Returned == phase \in {"done", "failed", "unfinished"}

\* the message a decode filled, read field by field, nest levels down
Read(root) == get_fields(Inner(root, nest))

\* ------------------------------------------------------------------------
\* Properties
\* ------------------------------------------------------------------------

\* C1  Chunk independence: however the input is cut into chunks, the
\* streaming decode ends as decode_flat of the whole input does - both
\* succeed or both fail, and the target messages are equal.
ChunkIndependence ==
    (Returned /\ flat.st \in {"true", "false"})
        => /\ (phase = "done") <=> (flat.st = "true")
           /\ h.root = flat.root

\* C2  Encode-decode round trip: the bytes encode_flat writes for a message
\* built with the accessors decode successfully, and every field of the
\* decoded message reads as it does in the message encoded.
RoundTrip ==
    (enc.st = "ok" /\ flat.st # "idle")
        => /\ flat.st = "true"
           /\ get_fields(flat.root) = get_fields(src)

\* C3  Zero on failure: when decode_flat has returned false, every field of
\* the target message reads as its default.
ZeroOnFailure ==
    flat.st = "false" => get_fields(flat.root) = get_fields(ZeroObject)

\* C3, the case: decode_flat returned false from finish, after fields had
\* been assigned
ZeroedAfterAssignment ==
    /\ flat.st = "false"
    /\ \E r \in {resume_impl(new(<<>>, ISIZE_MAX), input,
                             NewHeap(ZeroObject, arena))} :
          /\ r.ok
          /\ finish(r.d, r.h).h.root # ZeroObject

\* C4  Finish conditions: finish returns true only with overrun = 0, in the
\* Message state and with an empty stack; an input that ends inside a field
\* (its last bytes are missing) is rejected by decode_flat and by the
\* streaming decode.
FinishConditions ==
    /\ phase = "done" => /\ d.state.overrun = 0
                         /\ d.state.object.k = "Message"
                         /\ h.stack = <<>>
    /\ cut > 0 => phase # "done" /\ flat.st # "true"

\* C4, the case: finish has rejected an input that ends inside a field,
\* the cursor standing beyond the end of the input
TruncatedRejected ==
    cut > 0 /\ phase = "unfinished" /\ d.state.overrun > 0

StackBound ==
    /\ enc.st # "idle" =>
          IF Depth(src) <= STACK_DEPTH THEN enc.st = "ok"
          ELSE enc.st = "TreeTooDeep"
    /\ (flat.st # "idle" /\ Depth(src) <= STACK_DEPTH) => flat.st = "true"

\* C7  Packed/unpacked compatibility: an input with the repeated primitive
\* fields packed and the input with the same elements one by one decode
\* alike: both succeed or both fail, and the repeated fields read the same.
PackedUnpacked ==
    flat.st \in {"true", "false"} =>
        \E alt \in {decode_flat(ZeroObject, arena,
                       Nest(nest, Concat([i \in DOMAIN items |->
                                             Unpacked(items[i])])))} :
           /\ alt.ok <=> flat.st = "true"
           /\ (alt.ok /\ flat.st = "true") =>
                 \A f \in {7, 12} : Read(flat.root)[f] = Read(alt.root)[f]

\* C8  Unknown fields are skipped: with well-formed unknown fields among
\* the known fields of a valid input, the decode succeeds and every known
\* field reads as it does without them.
UnknownSkipped ==
    flat.st \in {"true", "false"} =>
        \E base \in {decode_flat(ZeroObject, arena,
                        Nest(nest, Concat(SelectSeq(items, IsKnown))))} :
           base.ok => /\ flat.st = "true"
                      /\ get_fields(flat.root) = get_fields(base.root)

\* C9  Decode-encode stability: the bytes encode_flat wrote for a message
\* decode, and encoding the decoded message gives the same bytes again.
Stability ==
    flat.st # "idle" =>
        /\ flat.st = "true"
        /\ out.st # "idle" => out.st = "ok" /\ out.bytes = input

\* C10  Oneof, last arm wins: after a sequence of occurrences of arms of
\* the oneof has been decoded, the arm that came last reads as present with
\* the value of that occurrence, and the other arms read as absent.
OneofLastArmWins ==
    /\ flat.st # "abort"
    /\ (flat.st = "true" /\ items # <<>>) =>
          \A f \in {9, 10, 11} :
             Read(flat.root)[f] =
                IF f = ArmOf(items[Len(items)])
                THEN Present(Carried(items[Len(items)]))
                ELSE Absent

\* C11  Repeated order: after a successful decode, in one piece or in
\* chunks, each repeated field holds exactly the elements of its
\* occurrences on the wire, packed blocks and single elements alike, in
\* wire order.
RepeatedOrder ==
    /\ flat.st = "true" =>
          \A f \in {7, 8, 12} : Read(flat.root)[f] = Holding(OnWire(f))
    /\ phase = "done" =>
          \A f \in {7, 8, 12} : Read(h.root)[f] = Holding(OnWire(f))

\* C12  Child allocation failure: a decode never panics, and when the
\* arena serves no request and the input holds a message or group field,
\* the decode returns failure, in one piece and in chunks.
ChildAllocFailure ==
    /\ flat.st # "panic" /\ phase # "panic"
    /\ (arena = Serving(0) /\ HasMsgPiece) =>
          flat.st # "true" /\ phase # "done"

\* C13  Zero on failure, streaming: when decode over a chunk provider has
\* returned an error, InvalidData or the provider's Io error, every field
\* of the target message reads as its default.
StreamZeroOnFailure ==
    phase \in {"failed", "unfinished", "io_error"} =>
        get_fields(h.root) = get_fields(ZeroObject)

\* C14  Field number 0: when the first tag with field number 0 is the tag
\* byte 0 at top level with the stack empty, parsing ends there and the
\* decode is no failure, in one piece or in chunks; when it is met inside a
\* sub-message or group, or has a non-zero wire type, the decode fails.
FieldZero ==
    /\ ZeroAtTop => /\ flat.st \in {"idle", "true"}
                    /\ phase \notin {"failed", "unfinished"}
    /\ ZeroNotAtTop => flat.st # "true" /\ phase # "done"

StaticEqualsDynamic ==
    phase = "compared" => same.verdict = "equal"


\* the last step was an alloc_raw that returned
AllocReturned == phase = "arena" /\ ret.calls > 0

\* C17 every alloc_raw that succeeds returns a pointer that is not null and
\* has the layout's alignment, zero-size layouts and an arena without a
\* block included; every other alloc_raw fails with ArenaAllocationFailed
AllocRawAligned ==
    AllocReturned =>
        IF ret.ok THEN ret.ptr # 0 /\ ret.ptr % ret.layout.align = 0
        ELSE ret.err = "ArenaAllocationFailed"

\* the bytes between the cursor, once aligned for the layout, and the end of
\* the current block
Remaining(a, layout) == a.end - RoundUp(a.cursor, layout.align)
IsAllocRaw == ret'.calls = ret.calls + 1

\* C18 an allocation that fails leaves the arena's current block, cursor,
\* end and block list as they were, and an allocation that fits the current
\* block succeeds whatever failed before it
FailedAllocKeepsArena ==
    [][IsAllocRaw =>
          /\ ~ret'.ok => arena' = arena /\ blocks' = blocks /\ sys' = sys
          /\ Remaining(arena, ret'.layout) >= ret'.layout.size => ret'.ok
      ]_vars

\* an arena without allocator served a request after it had refused one
ServedAfterFailure ==
    /\ AllocReturned
    /\ ~arena.allocator
    /\ ret.failed > 0
    /\ ret.ok
    /\ arena.cursor = ret.ptr + ret.layout.size

\* the block at ptr is new and linked behind the current block
LinkedBehindCurrent ==
    \E ptr \in DOMAIN blocks' \ DOMAIN blocks :
        /\ blocks'[arena.current].prev = ptr
        /\ blocks'[ptr].prev = blocks[arena.current].prev

\* C19 when a request does not fit the current block: with 512 bytes or
\* more left in it the request gets a dedicated block linked behind the
\* current one, which stays current with its cursor and end; with fewer
\* left a new block becomes the current one
DedicatedOrNewBlock ==
    [][(/\ IsAllocRaw
        /\ ret'.ok
        /\ Remaining(arena, ret'.layout) < ret'.layout.size) =>
          IF Remaining(arena, ret'.layout) >= SIGNIFICANT_SPACE_THRESHOLD
          THEN arena' = arena /\ LinkedBehindCurrent
          ELSE /\ arena'.current \in DOMAIN blocks' \ DOMAIN blocks
               /\ blocks'[arena'.current].prev = arena.current
      ]_vars

\* C20 drop hands every block the allocator handed out back to it once, with
\* the layout it was allocated with, and nothing else; nothing is handed
\* back before; an arena over a caller's buffer asks the allocator for
\* nothing and hands nothing back
DropFreesEachBlockOnce ==
    /\ phase = "dropped" =>
          /\ {sys.freed[i] : i \in DOMAIN sys.freed} = sys.live
          /\ Len(sys.freed) = Cardinality(sys.live)
    /\ phase # "dropped" => sys.freed = <<>>
    /\ ~arena.allocator => sys = Sys0

\* a dropped arena that had a current block and a dedicated block behind it
DroppedWithDedicated ==
    /\ phase = "dropped"
    /\ Len(sys.freed) = 2
    /\ sys.freed[1].ptr = arena.current
    /\ sys.freed[2].layout.size > sys.freed[1].layout.size
    /\ {sys.freed[1], sys.freed[2]} = sys.live


\* C21 once the files defining every referenced type are in the pool, in
\* whatever order they were added, each aux entry of each table points to
\* the table registered under its field's type name, and none is null
AuxEntriesLinked ==
    (phase = "files" /\ AllTypesAdded) =>
        \A name \in DOMAIN pool : \A a \in DOMAIN pool[name].aux_entries :
            pool[name].aux_entries[a].child_table = ChildType(pool[name], a)


\* C22 in every table of the pool a presence index of 128 or more marks a
\* oneof entry and nothing else, and the fields that need a has-bit have
\* distinct indices in 0..127, whatever the number of such fields: a message
\* with more of them gets no table
PresenceIndices ==
    \A name \in DOMAIN pool : PresenceIndicesOf(pool[name])


\* C23 an input with a length-delimited region whose last item runs past the
\* region's declared end is decoded successfully neither in one buffer nor
\* in chunks
RegionsConsumedExactly ==
    (\E i \in DOMAIN items : items[i] \in Overshooting)
        => (flat.st # "true" /\ phase # "done")


\* C24 an input with a length-delimited value whose declared length reaches
\* beyond the end of the sub-message around it fails to decode, in one
\* buffer and in chunks, whatever the chunks
LengthWithinParent ==
    (\E i \in DOMAIN items : items[i] \in Reaching)
        => /\ phase # "bytes" => flat.st = "false"
           /\ phase \notin {"done", "abort", "panic"}

\* such an input has failed in one buffer and in chunks
ReachingRejected ==
    /\ \E i \in DOMAIN items : items[i] \in Reaching
    /\ nest = 0
    /\ flat.st = "false"
    /\ phase \in {"failed", "unfinished"}
    /\ pos > SLOP_SIZE


\* C25 an input in which an end-group tag meets no open group, a group of
\* another number or a length-delimited frame, or in which a group is open
\* where its length-delimited region or the input ends, fails to decode,
\* for the known group and for unknown groups
GroupsNest ==
    (\E i \in DOMAIN items : items[i] \in Misnested)
        => /\ phase # "bytes" => flat.st = "false"
           /\ phase \notin {"done", "abort", "panic"}

\* a misnested group has been rejected in one buffer and in chunks
MisnestedRejected ==
    /\ \E i \in DOMAIN items : items[i] \in Misnested
    /\ nest = 0
    /\ flat.st = "false"
    /\ phase \in {"failed", "unfinished"}
    /\ pos > 1


\* C26 the cursor go_decode stops with, whether it returns a state or None,
\* lies at most SLOP_SIZE bytes past the end of the slice it was given, for
\* the state every resume left and for the next chunk's first pass
CursorWithinSlop ==
    /\ d.state.overrun <= SLOP_SIZE
    /\ (phase \in {"decoded", "feeding"} /\ d.state.object.k # "None")
           => \A k \in ChunkSizes :
                  pos + k <= Len(input)
                      => FirstPass(k).state.overrun <= SLOP_SIZE

\* after the first chunks the cursor stands a tag and a 10-byte varint, or
\* the whole margin, past the end of the slice
CursorDeepInSlop ==
    /\ phase = "feeding"
    /\ pos > SLOP_SIZE
    /\ \/ d.state.object.k = "Message" /\ d.state.overrun >= 10
       \/ d.state.object.k = "SkipLengthDelimited"
              /\ d.state.overrun = SLOP_SIZE


AppendFailureReported ==
    (arena = Serving(0) /\ items # <<>>)
        => flat.st # "true" /\ phase # "done"


\* C29 failure is sticky: once resume has returned false on a decoder, no
\* later resume and no finish on it returns true
FailureSticky ==
    [][(phase \in {"failed", "revived"})
           => (phase' \notin {"revived", "done after failure"})]_vars


\* C30 a message or string arm of the oneof decoded while another arm is
\* active starts from a fresh empty value: the word the earlier arm left in
\* the union is never used as the pointer to a child object or as the
\* pointer and capacity of a buffer, and after a successful decode the arm
\* reads as what its occurrence carried
OneofArmFresh ==
    /\ flat.st # "abort"
    /\ (/\ flat.st = "true"
        /\ Len(items) >= 2
        /\ ArmOf(items[Len(items)]) \in {10, 11}
        /\ ArmOf(items[Len(items) - 1]) # ArmOf(items[Len(items)]))
           => Read(flat.root)[ArmOf(items[Len(items)])]
                  = Present(Carried(items[Len(items)]))


====
